---- MODULE Spec2Model ----
(***************************************************************************)
(* Model of the connection layer of zedis:                                 *)
(*   - the process-wide connection pool and open_single_connection         *)
(*     (src/connection/async_connection.rs),                               *)
(*   - the preset-credential fallback try_open_with_preset_credentials,    *)
(*   - the scatter-gather query_async_masters with RedisClient::dbsize and *)
(*     RedisClient::scan (src/connection/manager.rs),                      *)
(*   - the client cache of ConnectionManager::get_client.                  *)
(* Every async fn is cut at its await points: one action per resumption.   *)
(***************************************************************************)
EXTENDS Integers, Sequences, FiniteSets, TLC

(***************************************************************************)
(* Bounds of the model.                                                    *)
(***************************************************************************)
\* concurrent callers of open_single_connection / get_client
NumTasks == 2
\* distinct passwords; password 0 stands for `password: None`
NumPw == 2

\* longest list of preset credentials
MaxPresets == 3
\* primary nodes of a deployment
MaxNodes == 2
\* keys in the SCAN reply of one node
\* largest DBSIZE reply of one node
MaxCount == 2

\* database numbers: 0 is the default database, for which no SELECT is sent
Dbs == {0, 1}
NoPassword == 0
Passwords == 1..NumPw
Configs == 0..NumPw
Tasks == 1..NumTasks
Nodes == 1..MaxNodes
\* the config of primary node i (its own host and port)
NodeConfig(i) == NumPw + i
NodeConfigs == {NodeConfig(i) : i \in Nodes}
\* the futures that run open_single_connection: callers and per-node tasks
Procs == Tasks \cup Nodes
NoSession == 0
\* every call opens at most one transport per credential it tries
MaxSessions == NumTasks + MaxPresets + MaxNodes + 1
Sessions == 1..MaxSessions
Keys == (Configs \cup NodeConfigs) \X Dbs
None == [ok |-> FALSE, none |-> TRUE]

VARIABLES
    pool,        \* CONNECTION_POOL: key -> session (NoSession: no entry)
    sessCfg,     \* session -> the config (credential) it was opened with
    sessDb,      \* session -> the database selected on it
    sessPinged,  \* history: the sessions that answered a PING
    nextSid,     \* number of transports opened so far
    srvAccepts,  \* the credentials the server accepts
    tk,          \* task -> frame of its running open_single_connection call
    lastInsert,  \* history: key -> session of the latest CONNECTION_POOL.insert
    au,          \* task -> frame of its try_open_with_preset_credentials call
    sg,          \* the running scatter-gather call (dbsize or scan)
    nd,          \* node -> its task of the scatter-gather call
    clients,     \* ConnectionManager.clients: server name -> RedisClient
    gc,          \* task -> frame of its running get_client call
    pf,          \* the call of a parsing or classifying function: input, result
    es,          \* the EditSession of the value editor, with its last call
    lv,          \* the list value shown, the server's list, the update task
    sc,          \* the ProtobufSchema of the server view, with its last call
    zs           \* ZedisServerState: the server list, the selected server, tasks

\* the state of the views
views == <<es, lv, sc, zs>>

\* the variables open_single_connection leaves alone
others == <<au, sg, nd, clients, gc, pf, views>>

(***************************************************************************)
(* Errors. A message is what Error::to_string() shows; `at` is the number  *)
(* of the connection attempt (within the caller) that produced the error,  *)
(* so that two errors of the same kind stay distinguishable.               *)
(***************************************************************************)
AuthMessages == {"AuthenticationFailed", "NOAUTH", "WRONGPASS",
                 "invalid username-password", "invalid password"}
OtherMessages == {"IoError"}
Err(msg, n) == [ok |-> FALSE, msg |-> msg, at |-> n]
Ok(s) == [ok |-> TRUE, conn |-> s]

is_auth_error_AnyError(e) == ~e.ok
is_auth_error(e) == e.msg \in AuthMessages

\* RedisServer::get_hash with the database number: the pool key
KeyOf(cfg, db) == <<cfg, db>>

\* DashMap spreads its keys over shards; a Ref locks the shard of its key.
\* Keys of one database share a shard here, keys of different ones do not.
ShardOf(k) == k[2]

(***************************************************************************)
(* The server and the network.                                             *)
(***************************************************************************)
\* Outcome of establishing a transport: the handshake sends AUTH when the
\* config carries a password.
ConnectOutcomes(cfg) ==
    (IF cfg # NoPassword /\ cfg \notin srvAccepts
        THEN {"AuthenticationFailed", "WRONGPASS"}
        ELSE {"ok"})
    \cup {"IoError"}

\* Outcomes of a command on session s: the server refuses a session that is
\* not authenticated; the transport may fail or time out at any command.
CmdOutcomes(s) ==
    (IF sessCfg[s] \notin srvAccepts THEN {"NOAUTH"} ELSE {"ok"})
    \cup {"IoError"}

(***************************************************************************)
(* open_single_connection                                                  *)
(***************************************************************************)
IdleFrame ==
    [pc |-> "idle", cfg |-> 0, db |-> 0, conn |-> NoSession, guard |-> FALSE,
     probed |-> NoSession, probeOk |-> FALSE, opened |-> 0, cmds |-> <<>>,
     pinged |-> {}, stored |-> NoSession, ret |-> None, at |-> 0,
     entry |-> NoSession, tried |-> 0]

\* CONNECTION_POOL.insert(key, conn): overwrites
PoolInsert_IfAbsent(p, k, s) == IF p[k] = NoSession THEN [p EXCEPT ![k] = s] ELSE p
PoolInsert(p, k, s) == [p EXCEPT ![k] = s]

\* CONNECTION_POOL.get(&key)
PoolGet_Miss(p, k) == NoSession
PoolGet(p, k) == p[k]

\* The frame of a call open_single_connection(cfg, db) run up to its first
\* await: the lookup, and on a hit the PING sent on a clone of the entry. The
\* Ref returned by get() lives to the end of the `if let` block.
OpenFrame(cfg, db, n) ==
    LET hit == PoolGet(pool, KeyOf(cfg, db)) IN
    [IdleFrame EXCEPT
        !.cfg = cfg, !.db = db, !.at = n,
        !.pc = IF hit # NoSession THEN "probe" ELSE "connect",
        !.conn = hit,
        !.guard = hit # NoSession,
        !.probed = hit]

\* The frame of a new call, with the history field `entry`: what the pool
\* held for the key when the call was made.
Call(cfg, db, n) == [OpenFrame(cfg, db, n) EXCEPT !.entry = pool[KeyOf(cfg, db)]]

KeyOfTask(t) == KeyOf(tk[t].cfg, tk[t].db)

\* A write of the map waits while a Ref of another task locks the shard.
ShardFree(t, k) ==
    \A u \in (DOMAIN tk) \ {t} : ~(tk[u].guard /\ ShardOf(KeyOfTask(u)) = ShardOf(k))

\* The configs the callers of the pool specification pass: one without and one
\* with a password.
PoolConfigs == {NoPassword, 1}

\* A caller starts its call.
OpenStart(t) ==
    /\ tk[t].pc = "idle"
    /\ \E cfg \in PoolConfigs, db \in Dbs :
          tk' = [tk EXCEPT ![t] = Call(cfg, db, 1)]
    /\ UNCHANGED <<pool, sessCfg, sessDb, sessPinged, nextSid, srvAccepts, lastInsert, others>>

\* The PING on the cached session answers.
ProbeReply(t) ==
    /\ tk[t].pc = "probe"
    /\ \E o \in CmdOutcomes(tk[t].conn) :
       LET s == tk[t].conn IN
       IF o = "ok"
       THEN /\ tk' = [tk EXCEPT ![t].pc = "done", ![t].guard = FALSE,
                                ![t].probeOk = TRUE,
                                ![t].pinged = @ \cup {s},
                                ![t].ret = Ok(s)]
            /\ sessPinged' = sessPinged \cup {s}
       ELSE /\ tk' = [tk EXCEPT ![t].pc = "connect", ![t].guard = FALSE,
                                ![t].conn = NoSession]
            /\ UNCHANGED sessPinged
    /\ UNCHANGED <<pool, sessCfg, sessDb, nextSid, srvAccepts, lastInsert, others>>

\* open_single_ssh_tunnel_connection / get_multiplexed_async_connection_with_config
Connect(t) ==
    /\ tk[t].pc = "connect"
    /\ nextSid < MaxSessions
    /\ \E o \in ConnectOutcomes(tk[t].cfg) :
        IF o = "ok"
        THEN LET s == nextSid + 1 IN
             /\ nextSid' = s
             /\ sessCfg' = [sessCfg EXCEPT ![s] = tk[t].cfg]
             /\ sessDb' = [sessDb EXCEPT ![s] = 0]
             /\ tk' = [tk EXCEPT ![t].conn = s, ![t].opened = @ + 1,
                                 ![t].tried = @ + 1,
                                 ![t].pc = IF tk[t].db # 0 THEN "select" ELSE "ping"]
        ELSE /\ tk' = [tk EXCEPT ![t].pc = "done", ![t].tried = @ + 1,
                                 ![t].ret = Err(o, tk[t].at)]
             /\ UNCHANGED <<sessCfg, sessDb, nextSid>>
    /\ UNCHANGED <<pool, sessPinged, srvAccepts, lastInsert, others>>

\* cmd("SELECT").arg(db) on the new session
Select(t) ==
    /\ tk[t].pc = "select"
    /\ \E o \in CmdOutcomes(tk[t].conn) :
       LET s == tk[t].conn IN
       IF o = "ok"
       THEN /\ sessDb' = [sessDb EXCEPT ![s] = tk[t].db]
            /\ tk' = [tk EXCEPT ![t].pc = "ping", ![t].cmds = Append(@, "SELECT")]
       ELSE /\ tk' = [tk EXCEPT ![t].pc = "done", ![t].ret = Err(o, tk[t].at),
                                ![t].cmds = Append(@, "SELECT")]
            /\ UNCHANGED sessDb
    /\ UNCHANGED <<pool, sessCfg, sessPinged, nextSid, srvAccepts, lastInsert, others>>

\* cmd("PING") on the new session
PingNew_IgnoreError(t) ==
    /\ tk[t].pc = "ping"
    /\ \E o \in CmdOutcomes(tk[t].conn) :
       LET s == tk[t].conn IN
       /\ tk' = [tk EXCEPT ![t].pc = "insert", ![t].cmds = Append(@, "PING"),
                           ![t].pinged = IF o = "ok" THEN @ \cup {s} ELSE @]
       /\ sessPinged' = IF o = "ok" THEN sessPinged \cup {s} ELSE sessPinged
    /\ UNCHANGED <<pool, sessCfg, sessDb, nextSid, srvAccepts, lastInsert, others>>

PingNew(t) ==
    /\ tk[t].pc = "ping"
    /\ \E o \in CmdOutcomes(tk[t].conn) :
       LET s == tk[t].conn IN
       IF o = "ok"
       THEN /\ tk' = [tk EXCEPT ![t].pc = "insert", ![t].cmds = Append(@, "PING"),
                                ![t].pinged = @ \cup {s}]
            /\ sessPinged' = sessPinged \cup {s}
       ELSE /\ tk' = [tk EXCEPT ![t].pc = "done", ![t].ret = Err(o, tk[t].at),
                                ![t].cmds = Append(@, "PING")]
            /\ UNCHANGED sessPinged
    /\ UNCHANGED <<pool, sessCfg, sessDb, nextSid, srvAccepts, lastInsert, others>>

\* CONNECTION_POOL.insert(key, conn.clone()); Ok(conn)
Insert(t) ==
    /\ tk[t].pc = "insert"
    /\ ShardFree(t, KeyOfTask(t))
    /\ pool' = PoolInsert(pool, KeyOfTask(t), tk[t].conn)
    /\ lastInsert' = [lastInsert EXCEPT ![KeyOfTask(t)] = tk[t].conn]
    /\ tk' = [tk EXCEPT ![t].pc = "done", ![t].ret = Ok(tk[t].conn),
                        ![t].stored = PoolGet(PoolInsert(pool, KeyOfTask(t), tk[t].conn),
                                              KeyOfTask(t))]
    /\ UNCHANGED <<sessCfg, sessDb, sessPinged, nextSid, srvAccepts, others>>

(***************************************************************************)
(* Data of query_async_masters, RedisClient::dbsize and RedisClient::scan  *)
(***************************************************************************)
\* Keys are byte strings: "a", "ab", "b".
KeyNames == {<<1>>, <<1, 2>>, <<2>>}
\* SCAN cursors
Cursors == {0, 1}
\* the key batch of one SCAN reply: none, out of order, a key and a longer
\* key it is a prefix of, one key that another node replies too
Batches == {<<>>, <<<<2>>, <<1>>>>, <<<<1>>, <<1, 2>>>>, <<<<1, 2>>>>}
Counts == 0..MaxCount
\* the cursor lists a caller passes to scan
CursorLists == UNION {[1..n -> Cursors] : n \in 0..MaxNodes}

CmdDbsize == [name |-> "DBSIZE"]
CmdScan(cursor) == [name |-> "SCAN", cursor |-> cursor]

\* the values a node may answer to a command
Replies(c) ==
    IF c.name = "DBSIZE" THEN Counts
    ELSE [cursor : Cursors, keys : Batches]

IdleCall ==
    [pc |-> "idle", op |-> "none", n |-> 0, db |-> 0, cmds |-> <<>>,
     traced |-> FALSE, first |-> 0, values |-> <<>>, ret |-> None]
IdleNode == [pc |-> "idle", cmd |-> CmdDbsize, val |-> 0, err |-> None]

(***************************************************************************)
(* Data of try_open_with_preset_credentials                                *)
(***************************************************************************)
\* the task that runs the fallback in the specification SpecAuth
AuthTasks == {1}

\* preset_credentials: Vec<PresetCredential>, in retry order
PresetLists == UNION {[1..n -> Passwords] : n \in 0..MaxPresets}

\* AuthSource
SourceConfig == [tag |-> "Config"]
SourceNone == [tag |-> "None"]
SourcePreset(index, credential) ==
    [tag |-> "Preset", index |-> index, credential |-> credential]

\* RedisServer::with_credential: the config with the credential's password
with_credential(cfg, credential) == credential

\* Error::Invalid { message: "Server requires authentication" }
GenericError == Err("Server requires authentication", 0)

OkAuth(s, source) == [ok |-> TRUE, conn |-> s, source |-> source]

IdleAuth ==
    [pc |-> "idle", cfg |-> 0, db |-> 0, presets |-> <<>>, index |-> 0,
     last_error |-> None, ret |-> None, attempts |-> <<>>, results |-> <<>>]

(***************************************************************************)
(* Data of ConnectionManager: the configured servers, the replies to the   *)
(* discovery commands, the cached clients.                                 *)
(***************************************************************************)
\* "alpha" is configured with a password, "beta" without one and with a
\* master_name, "ghost" is not configured
Names == {"alpha", "beta", "ghost"}
Configured == {"alpha", "beta"}
NoMasterName == ""
get_config(name) ==
    IF name = "alpha" THEN [password |-> TRUE, master_name |-> NoMasterName, url |-> 0]
    ELSE [password |-> FALSE, master_name |-> "m2", url |-> 0]
ConfigNotFound == Err("Redis config not found", 0)

ServerTypes == {"Standalone", "Cluster", "Sentinel"}
RedisNode(addr, role, master_name) ==
    [addr |-> addr, role |-> role, master_name |-> master_name]
\* the node lists parse_cluster_nodes yields for the CLUSTER NODES replies
ClusterReplies ==
    {<<>>,
     <<RedisNode(1, "Master", NoMasterName)>>,
     <<RedisNode(1, "Master", NoMasterName), RedisNode(2, "Slave", NoMasterName)>>,
     <<RedisNode(2, "Master", NoMasterName), RedisNode(1, "Master", NoMasterName)>>}
\* the SENTINEL MASTERS replies: (name, address) of each record
SentinelReplies ==
    {<<>>,
     <<[name |-> "m1", addr |-> 1]>>,
     <<[name |-> "m1", addr |-> 1], [name |-> "m2", addr |-> 2]>>,
     <<[name |-> "m2", addr |-> 2], [name |-> "m2", addr |-> 1]>>}

NoClient == [none |-> TRUE]
RedisClient(kind, nodes, master_nodes) ==
    [kind |-> kind, nodes |-> nodes, master_nodes |-> master_nodes]
OkClient(client) == [ok |-> TRUE, client |-> client]
IdleGet ==
    [pc |-> "idle", name |-> "", entry |-> NoClient, found |-> NoClient,
     hit |-> FALSE, cleared |-> FALSE, probes |-> 0, io |-> 0,
     server_type |-> "", first |-> None, enumerated |-> FALSE,
     reply |-> <<>>, nodes |-> <<>>, ret |-> None]

\* no parsing call yet
IdlePure ==
    [pc |-> "idle", op |-> "none", input |-> <<>>, shape |-> <<>>, sent |-> <<>>,
     ret |-> None]

\* no value is edited, no list is shown, no schema is loaded
NoEditSession == [pc |-> "none"]
NoListView == [pc |-> "none"]
NoSchema == [pc |-> "none"]
NoServerState == [pc |-> "none"]
NoViews == es = NoEditSession /\ lv = NoListView /\ sc = NoSchema /\ zs = NoServerState

vars == <<pool, sessCfg, sessDb, sessPinged, nextSid, srvAccepts, tk, lastInsert, au, sg, nd, clients, gc, pf, es, lv, sc, zs>>

InitPool ==
    /\ pool = [k \in Keys |-> NoSession]
    /\ sessCfg = [s \in Sessions |-> 0]
    /\ sessDb = [s \in Sessions |-> 0]
    /\ sessPinged = {}
    /\ nextSid = 0
    /\ srvAccepts \in SUBSET PoolConfigs
    /\ tk = [t \in Procs |-> IdleFrame]
    /\ lastInsert = [k \in Keys |-> NoSession]
    /\ au = [t \in Tasks |-> IdleAuth]
    /\ sg = IdleCall
    /\ nd = [i \in Nodes |-> IdleNode]
    /\ clients = [name \in Names |-> NoClient]
    /\ gc = [t \in Tasks |-> IdleGet]
    /\ pf = IdlePure
    /\ NoViews

NextPool ==
    \/ \E t \in Tasks : OpenStart(t)
    \/ \E t \in Tasks : ProbeReply(t)
    \/ \E t \in Tasks : Connect(t)
    \/ \E t \in Tasks : Select(t)
    \/ \E t \in Tasks : PingNew(t)
    \/ \E t \in Tasks : Insert(t)

SpecPool == InitPool /\ [][NextPool]_vars

(***************************************************************************)
(* try_open_with_preset_credentials                                        *)
(***************************************************************************)
\* First try with original config: the call runs up to the first await of
\* open_single_connection(config, db).
AuthStart(t) ==
    /\ au[t].pc = "idle"
    /\ \E cfg \in Configs, db \in Dbs, presets \in PresetLists :
          /\ au' = [au EXCEPT ![t] = [IdleAuth EXCEPT
                        !.pc = "first", !.cfg = cfg, !.db = db,
                        !.presets = presets, !.attempts = <<cfg>>]]
          /\ tk' = [tk EXCEPT ![t] = Call(cfg, db, 1)]
    /\ UNCHANGED <<pool, sessCfg, sessDb, sessPinged, nextSid, srvAccepts, lastInsert, sg, nd, clients, gc, pf, views>>

\* One iteration of `for (index, credential) in preset_credentials`, from the
\* 1-based position i, with last_error = last; past the end of the list the
\* function returns last_error, or the generic error when there is none.
\* `results` is the history of what the attempts so far returned.
TryPreset_SkipFirst(t, i, last, results) ==
    IF i + 1 <= Len(au[t].presets)
    THEN LET test_config == with_credential(au[t].cfg, au[t].presets[i + 1]) IN
         /\ au' = [au EXCEPT ![t].pc = "preset", ![t].index = i + 1,
                             ![t].last_error = last, ![t].results = results,
                             ![t].attempts = Append(@, test_config)]
         /\ tk' = [tk EXCEPT ![t] = Call(test_config, au[t].db, Len(results) + 1)]
    ELSE /\ au' = [au EXCEPT ![t].pc = "done", ![t].last_error = last,
                             ![t].results = results,
                             ![t].ret = IF last = None THEN GenericError ELSE last]
         /\ UNCHANGED tk

TryPreset_Again(t, i, last, results) ==
    LET j == IF i > Len(au[t].presets) /\ i > 1 THEN i - 1 ELSE i IN
    IF j <= Len(au[t].presets)
    THEN LET test_config == with_credential(au[t].cfg, au[t].presets[j]) IN
         /\ au' = [au EXCEPT ![t].pc = "preset", ![t].index = j,
                             ![t].last_error = last, ![t].results = results,
                             ![t].attempts = Append(@, test_config)]
         /\ tk' = [tk EXCEPT ![t] = Call(test_config, au[t].db, Len(results) + 1)]
    ELSE /\ au' = [au EXCEPT ![t].pc = "done", ![t].last_error = last,
                             ![t].results = results,
                             ![t].ret = IF last = None THEN GenericError ELSE last]
         /\ UNCHANGED tk

TryPreset(t, i, last, results) ==
    IF i <= Len(au[t].presets)
    THEN LET test_config == with_credential(au[t].cfg, au[t].presets[i]) IN
         /\ au' = [au EXCEPT ![t].pc = "preset", ![t].index = i,
                             ![t].last_error = last, ![t].results = results,
                             ![t].attempts = Append(@, test_config)]
         /\ tk' = [tk EXCEPT ![t] = Call(test_config, au[t].db, Len(results) + 1)]
    ELSE /\ au' = [au EXCEPT ![t].pc = "done", ![t].last_error = last,
                             ![t].results = results,
                             ![t].ret = IF last = None THEN GenericError ELSE last]
         /\ UNCHANGED tk

\* if config.password.is_some() { AuthSource::Config } else { AuthSource::None }
SourceOfConfig_AlwaysConfig(cfg) == SourceConfig
SourceOfConfig(cfg) == IF cfg # NoPassword THEN SourceConfig ELSE SourceNone

\* The first open_single_connection has returned (the `match` of the code).
AuthFirstReturn_RetryAlways(t) ==
    /\ au[t].pc = "first"
    /\ tk[t].pc = "done"
    /\ LET r == tk[t].ret IN
       IF r.ok
       THEN /\ au' = [au EXCEPT ![t].pc = "done", ![t].results = <<r>>,
                       ![t].ret = OkAuth(r.conn, SourceOfConfig(au[t].cfg))]
            /\ UNCHANGED tk
       ELSE IF ~is_auth_error(r)
       THEN /\ au' = [au EXCEPT ![t].pc = "done", ![t].ret = r, ![t].results = <<r>>]
            /\ UNCHANGED tk
       ELSE TryPreset(t, 1, None, <<r>>)
    /\ UNCHANGED <<pool, sessCfg, sessDb, sessPinged, nextSid, srvAccepts, lastInsert, sg, nd, clients, gc, pf, views>>

AuthFirstReturn(t) ==
    /\ au[t].pc = "first"
    /\ tk[t].pc = "done"
    /\ LET r == tk[t].ret IN
       IF r.ok
       THEN /\ au' = [au EXCEPT ![t].pc = "done", ![t].results = <<r>>,
                       ![t].ret = OkAuth(r.conn, SourceOfConfig(au[t].cfg))]
            /\ UNCHANGED tk
       ELSE IF ~is_auth_error(r) \/ au[t].cfg # NoPassword
       THEN /\ au' = [au EXCEPT ![t].pc = "done", ![t].ret = r, ![t].results = <<r>>]
            /\ UNCHANGED tk
       ELSE TryPreset(t, 1, None, <<r>>)
    /\ UNCHANGED <<pool, sessCfg, sessDb, sessPinged, nextSid, srvAccepts, lastInsert, sg, nd, clients, gc, pf, views>>

\* The open_single_connection of a preset credential has returned.
AuthPresetReturn_KeepFirstError(t) ==
    /\ au[t].pc = "preset"
    /\ tk[t].pc = "done"
    /\ LET r == tk[t].ret  i == au[t].index IN
       IF r.ok
       THEN /\ au' = [au EXCEPT ![t].pc = "done", ![t].results = Append(@, r),
                       ![t].ret = OkAuth(r.conn, SourcePreset(i - 1, au[t].presets[i]))]
            /\ UNCHANGED tk
       ELSE TryPreset(t, i + 1, IF au[t].last_error = None THEN r ELSE au[t].last_error,
                      Append(au[t].results, r))
    /\ UNCHANGED <<pool, sessCfg, sessDb, sessPinged, nextSid, srvAccepts, lastInsert, sg, nd, clients, gc, pf, views>>

AuthPresetReturn(t) ==
    /\ au[t].pc = "preset"
    /\ tk[t].pc = "done"
    /\ LET r == tk[t].ret  i == au[t].index IN
       IF r.ok
       THEN /\ au' = [au EXCEPT ![t].pc = "done", ![t].results = Append(@, r),
                       ![t].ret = OkAuth(r.conn, SourcePreset(i - 1, au[t].presets[i]))]
            /\ UNCHANGED tk
       ELSE TryPreset(t, i + 1, r, Append(au[t].results, r))
    /\ UNCHANGED <<pool, sessCfg, sessDb, sessPinged, nextSid, srvAccepts, lastInsert, sg, nd, clients, gc, pf, views>>

\* What the pool may hold when the fallback is called: nothing, or a session
\* that an earlier open_single_connection opened, verified and cached.
InitAuth ==
    /\ srvAccepts \in SUBSET Configs
    /\ \E prior \in {<<>>} \cup {<<k>> : k \in {q \in Keys : q[1] \in srvAccepts}} :
        /\ pool = [k \in Keys |-> IF prior = <<k>> THEN 1 ELSE NoSession]
        /\ lastInsert = pool
        /\ sessCfg = [s \in Sessions |-> IF s = 1 /\ prior # <<>> THEN prior[1][1] ELSE 0]
        /\ sessDb = [s \in Sessions |-> IF s = 1 /\ prior # <<>> THEN prior[1][2] ELSE 0]
        /\ sessPinged = IF prior = <<>> THEN {} ELSE {1}
        /\ nextSid = IF prior = <<>> THEN 0 ELSE 1
    /\ tk = [t \in Procs |-> IdleFrame]
    /\ au = [t \in Tasks |-> IdleAuth]
    /\ sg = IdleCall
    /\ nd = [i \in Nodes |-> IdleNode]
    /\ clients = [name \in Names |-> NoClient]
    /\ gc = [t \in Tasks |-> IdleGet]
    /\ pf = IdlePure
    /\ NoViews

NextAuth ==
    \/ \E t \in AuthTasks : AuthStart(t)
    \/ \E t \in AuthTasks : ProbeReply(t)
    \/ \E t \in AuthTasks : Connect(t)
    \/ \E t \in AuthTasks : Select(t)
    \/ \E t \in AuthTasks : PingNew(t)
    \/ \E t \in AuthTasks : Insert(t)
    \/ \E t \in AuthTasks : AuthFirstReturn(t)
    \/ \E t \in AuthTasks : AuthPresetReturn(t)

SpecAuth == InitAuth /\ [][NextAuth]_vars

(***************************************************************************)
(* query_async_masters, RedisClient::dbsize, RedisClient::scan             *)
(***************************************************************************)
RECURSIVE LexLess(_, _)
\* str < str: byte-wise lexicographic order
LexLess(x, y) ==
    IF y = <<>> THEN FALSE
    ELSE IF x = <<>> THEN TRUE
    ELSE IF x[1] # y[1] THEN x[1] < y[1]
    ELSE LexLess(Tail(x), Tail(y))
LexLeq(x, y) == x = y \/ LexLess(x, y)

RECURSIVE InsertSorted(_, _)
InsertSorted(k, sorted) ==
    IF sorted = <<>> THEN <<k>>
    ELSE IF LexLeq(k, sorted[1]) THEN <<k>> \o sorted
    ELSE <<sorted[1]>> \o InsertSorted(k, Tail(sorted))

RECURSIVE InsertSortedUnique(_, _)
InsertSortedUnique(k, sorted) ==
    IF sorted = <<>> THEN <<k>>
    ELSE IF k = sorted[1] THEN sorted
    ELSE IF LexLess(k, sorted[1]) THEN <<k>> \o sorted
    ELSE <<sorted[1]>> \o InsertSortedUnique(k, Tail(sorted))

RECURSIVE SortDedup(_)
SortDedup(keys) ==
    IF keys = <<>> THEN <<>> ELSE InsertSortedUnique(keys[1], SortDedup(Tail(keys)))

RECURSIVE sort_unstable(_)
\* keys.sort_unstable(): the keys in ascending order, equal keys kept
sort_unstable(keys) ==
    IF keys = <<>> THEN <<>> ELSE InsertSorted(keys[1], sort_unstable(Tail(keys)))

RECURSIVE Sum(_)
\* list.iter().sum()
Sum(list) == IF list = <<>> THEN 0 ELSE list[1] + Sum(Tail(list))

RECURSIVE ExtendAll(_)
\* keys.extend(keys_in_node) over the values, in node order
ExtendAll(values) ==
    IF values = <<>> THEN <<>> ELSE values[1].keys \o ExtendAll(Tail(values))

OkTotal(total) == [ok |-> TRUE, total |-> total]
OkScan(cursors, keys) == [ok |-> TRUE, cursors |-> cursors, keys |-> keys]
\* values[0] on an empty vector: the thread panics
Panic == [ok |-> FALSE, panic |-> TRUE]
CommandsEmpty == Err("Commands are empty", 0)

\* What the caller of query_async_masters makes of Ok(values).
\* dbsize: the sum; scan: the cursors in node order and the sorted keys.
Gathered(op, values) ==
    IF op = "dbsize" THEN OkTotal(Sum(values))
    ELSE IF values = <<>> THEN Panic
    ELSE OkScan([i \in 1..Len(values) |-> values[i].cursor],
                sort_unstable(ExtendAll(values)))

\* try_join_all(tasks).await?: the values of the n tasks, in the order of the
\* tasks; first is the task that completed first (history, kept when the
\* call is traced)
JoinedValues_FirstDone(nodes, n, first) ==
    <<nodes[first].val>>
    \o [j \in 1..(n - 1) |-> nodes[IF j < first THEN j ELSE j + 1].val]
JoinedValues(nodes, n, first) == [j \in 1..n |-> nodes[j].val]

IsOk(node) == node.pc = "ok"
ValuesOf(nodes) == [j \in 1..Len(nodes) |-> nodes[j].val]

\* cmds.get(index).unwrap_or(first_cmd), index counted from 1 here
CommandOfNode_First(cmds, i) == cmds[1]
CommandOfNode(cmds, i) == IF i <= Len(cmds) THEN cmds[i] ELSE cmds[1]

\* The client's call runs up to the first await: the commands are built, an
\* empty command list is refused, one task per primary node is created;
\* try_join_all over no task at all is ready at once.
SgStart ==
    /\ sg.pc = "idle"
    /\ \E op \in {"dbsize", "scan"}, db \in Dbs, cursors \in CursorLists :
        LET cmds == IF op = "dbsize" THEN <<CmdDbsize>>
                    ELSE [i \in 1..Len(cursors) |-> CmdScan(cursors[i])]
            n == sg.n
        IN
        /\ op = "dbsize" => cursors = <<>>
        /\ IF cmds = <<>>
           THEN /\ sg' = [sg EXCEPT !.pc = "done", !.op = op, !.db = db,
                                    !.cmds = cmds, !.ret = CommandsEmpty]
                /\ UNCHANGED nd
           ELSE /\ sg' = [sg EXCEPT !.op = op, !.db = db, !.cmds = cmds,
                              !.pc = IF n = 0 THEN "done" ELSE "join",
                              !.ret = IF n = 0 THEN Gathered(op, <<>>) ELSE None]
                /\ nd' = [i \in Nodes |->
                            IF i <= n
                            THEN [IdleNode EXCEPT !.pc = "wait",
                                                  !.cmd = CommandOfNode(cmds, i)]
                            ELSE IdleNode]
    /\ UNCHANGED <<pool, sessCfg, sessDb, sessPinged, nextSid, srvAccepts, tk, lastInsert, au, clients, gc, pf, views>>

\* The task of node i is polled (after the optional test delay): it calls
\* open_single_connection(&addr, db).
NodeStart(i) ==
    /\ sg.pc = "join"
    /\ nd[i].pc = "wait"
    /\ nd' = [nd EXCEPT ![i].pc = "open"]
    /\ tk' = [tk EXCEPT ![i] = Call(NodeConfig(i), sg.db, i)]
    /\ UNCHANGED <<pool, sessCfg, sessDb, sessPinged, nextSid, srvAccepts, lastInsert, au, sg, clients, gc, pf, views>>

\* try_join_all: the first error ends the call; the other tasks are dropped
\* with whatever they hold, and their values are discarded.
NodeFail_PartialSum(i, e) ==
    /\ sg' = [sg EXCEPT !.pc = "done",
                 !.ret = Gathered(sg.op, ValuesOf(SelectSeq([j \in 1..sg.n |-> nd[j]], IsOk)))]
    /\ nd' = [j \in Nodes |->
                IF j = i THEN [nd[j] EXCEPT !.pc = "err", !.err = e]
                ELSE IF nd[j].pc \in {"wait", "open", "query"}
                     THEN [nd[j] EXCEPT !.pc = "dropped"]
                     ELSE nd[j]]
    /\ tk' = [t \in Procs |->
                IF t \in Nodes /\ t # i /\ nd[t].pc \in {"open", "query"}
                THEN [tk[t] EXCEPT !.pc = "dropped", !.guard = FALSE]
                ELSE tk[t]]

NodeFail(i, e) ==
    /\ sg' = [sg EXCEPT !.pc = "done", !.ret = e]
    /\ nd' = [j \in Nodes |->
                IF j = i THEN [nd[j] EXCEPT !.pc = "err", !.err = e]
                ELSE IF nd[j].pc \in {"wait", "open", "query"}
                     THEN [nd[j] EXCEPT !.pc = "dropped"]
                     ELSE nd[j]]
    /\ tk' = [t \in Procs |->
                IF t \in Nodes /\ t # i /\ nd[t].pc \in {"open", "query"}
                THEN [tk[t] EXCEPT !.pc = "dropped", !.guard = FALSE]
                ELSE tk[t]]

\* open_single_connection of node i has returned: `?` on an error, else the
\* node's command is sent on the connection.
NodeOpened(i) ==
    /\ sg.pc = "join"
    /\ nd[i].pc = "open"
    /\ tk[i].pc = "done"
    /\ IF tk[i].ret.ok
       THEN /\ nd' = [nd EXCEPT ![i].pc = "query"]
            /\ UNCHANGED <<sg, tk>>
       ELSE NodeFail(i, tk[i].ret)
    /\ UNCHANGED <<pool, sessCfg, sessDb, sessPinged, nextSid, srvAccepts, lastInsert, au, clients, gc, pf, views>>

\* The reply to the command of node i; the last value completes the join.
NodeReply(i) ==
    /\ sg.pc = "join"
    /\ nd[i].pc = "query"
    /\ \E o \in CmdOutcomes(tk[i].ret.conn) :
        IF o = "ok"
        THEN \E v \in Replies(nd[i].cmd) :
             LET after == [nd EXCEPT ![i].pc = "ok", ![i].val = v]
                 first == IF sg.traced /\ sg.first = 0 THEN i ELSE sg.first
             IN
             /\ nd' = after
             /\ IF \A j \in 1..sg.n : after[j].pc = "ok"
                THEN sg' = [sg EXCEPT !.pc = "done", !.first = first,
                              !.values = JoinedValues(after, sg.n, first),
                              !.ret = Gathered(sg.op, JoinedValues(after, sg.n, first))]
                ELSE sg' = [sg EXCEPT !.first = first]
             /\ UNCHANGED tk
        ELSE NodeFail(i, Err(o, i))
    /\ UNCHANGED <<pool, sessCfg, sessDb, sessPinged, nextSid, srvAccepts, lastInsert, au, clients, gc, pf, views>>

\* The client has 0..MaxNodes primary nodes, all of which accept its
\* credentials; the pool is empty or holds a session of node 1 that an
\* earlier call opened for database 0.
InitScatter ==
    /\ srvAccepts = NodeConfigs
    /\ \E prior \in BOOLEAN :
        /\ pool = [k \in Keys |-> IF prior /\ k = KeyOf(NodeConfig(1), 0)
                                   THEN 1 ELSE NoSession]
        /\ lastInsert = pool
        /\ sessCfg = [s \in Sessions |-> IF s = 1 /\ prior THEN NodeConfig(1) ELSE 0]
        /\ sessPinged = IF prior THEN {1} ELSE {}
        /\ nextSid = IF prior THEN 1 ELSE 0
    /\ sessDb = [s \in Sessions |-> 0]
    /\ tk = [t \in Procs |-> IdleFrame]
    /\ au = [t \in Tasks |-> IdleAuth]
    /\ \E n \in 0..MaxNodes : sg = [IdleCall EXCEPT !.n = n]
    /\ nd = [i \in Nodes |-> IdleNode]
    /\ clients = [name \in Names |-> NoClient]
    /\ gc = [t \in Tasks |-> IdleGet]
    /\ pf = IdlePure
    /\ NoViews

NextScatter ==
    \/ SgStart
    \/ \E i \in Nodes : NodeStart(i)
    \/ \E i \in Nodes : ProbeReply(i)
    \/ \E i \in Nodes : Connect(i)
    \/ \E i \in Nodes : Select(i)
    \/ \E i \in Nodes : PingNew(i)
    \/ \E i \in Nodes : Insert(i)
    \/ \E i \in Nodes : NodeOpened(i)
    \/ \E i \in Nodes : NodeReply(i)

SpecScatter == InitScatter /\ [][NextScatter]_vars

\* The same calls on an empty pool, with the completion of the tasks traced.
InitJoin ==
    /\ srvAccepts = NodeConfigs
    /\ pool = [k \in Keys |-> NoSession]
    /\ lastInsert = pool
    /\ sessCfg = [s \in Sessions |-> 0]
    /\ sessPinged = {}
    /\ nextSid = 0
    /\ sessDb = [s \in Sessions |-> 0]
    /\ tk = [t \in Procs |-> IdleFrame]
    /\ au = [t \in Tasks |-> IdleAuth]
    /\ \E n \in 0..MaxNodes : sg = [IdleCall EXCEPT !.n = n, !.traced = TRUE]
    /\ nd = [i \in Nodes |-> IdleNode]
    /\ clients = [name \in Names |-> NoClient]
    /\ gc = [t \in Tasks |-> IdleGet]
    /\ pf = IdlePure
    /\ NoViews

\* the pool starts empty and every node has its own key, so no pooled
\* session is ever probed here
NextJoin ==
    \/ SgStart
    \/ \E i \in Nodes : NodeStart(i)
    \/ \E i \in Nodes : Connect(i)
    \/ \E i \in Nodes : Select(i)
    \/ \E i \in Nodes : PingNew(i)
    \/ \E i \in Nodes : Insert(i)
    \/ \E i \in Nodes : NodeOpened(i)
    \/ \E i \in Nodes : NodeReply(i)

SpecJoin == InitJoin /\ [][NextJoin]_vars

(***************************************************************************)
(* ConnectionManager::get_client and get_redis_nodes                       *)
(***************************************************************************)
PoolVars == <<pool, sessCfg, sessDb, sessPinged, nextSid, srvAccepts, tk, lastInsert>>

\* self.clients.get(name)
CacheGet_Miss(name) == NoClient
CacheGet(name) == clients[name]

\* detect_server_type: the connection, ROLE and INFO cluster
DetectOutcomes ==
    {[ok |-> TRUE, server_type |-> st] : st \in ServerTypes}
    \cup {Err("AuthenticationFailed", 0), Err("NOAUTH", 0), Err("IoError", 0)}

\* config.password.is_none() || !e.to_string().contains("AuthenticationFailed"):
\* the error of the first probe is returned
ReturnsFirstError_WithPassword(config, e) ==
    config.password \/ e.msg # "AuthenticationFailed"
ReturnsFirstError(config, e) ==
    ~config.password \/ e.msg # "AuthenticationFailed"

IsMaster(node) == node.role = "Master"

\* cluster::ClusterClient::new(addrs)? with no address
NoInitialNodes == Err("Initial nodes can't be empty.", 0)

\* The rest of get_client once get_redis_nodes has returned Ok((nodes,
\* server_type)): no await up to the insert.  nodes[0] of an empty list
\* panics and nothing is cached.
BuildAndCache(t, nodes, server_type, frame) ==
    LET got == [frame EXCEPT !.pc = "done", !.server_type = server_type,
                             !.nodes = nodes]
    IN
    IF nodes = <<>>
    THEN /\ gc' = [gc EXCEPT ![t] =
                    [got EXCEPT !.ret = IF server_type = "Cluster"
                                        THEN NoInitialNodes ELSE Panic]]
         /\ UNCHANGED clients
    ELSE LET client == RedisClient(IF server_type = "Cluster" THEN "Cluster" ELSE "Single",
                                   nodes, SelectSeq(nodes, IsMaster))
         IN /\ clients' = [clients EXCEPT ![gc[t].name] = client]
            /\ gc' = [gc EXCEPT ![t] = [got EXCEPT !.ret = OkClient(client)]]

\* get_client up to its first await: a cached client is returned at once;
\* otherwise get_redis_nodes reads the config and starts the type probe.
GetClient(t) ==
    /\ gc[t].pc = "idle"
    /\ \E name \in Names :
        LET found == CacheGet(name)
            call == [IdleGet EXCEPT !.name = name, !.entry = clients[name],
                                    !.found = found]
        IN
        gc' = [gc EXCEPT ![t] =
                 IF found # NoClient
                 THEN [call EXCEPT !.pc = "done", !.hit = TRUE, !.ret = OkClient(found)]
                 ELSE IF name \notin Configured
                 THEN [call EXCEPT !.pc = "done", !.ret = ConfigNotFound]
                 ELSE [call EXCEPT !.pc = "detect"]]
    /\ UNCHANGED <<PoolVars, au, sg, nd, clients, pf, views>>

\* detect_server_type has returned.  An AuthenticationFailed error of the
\* first probe is retried without the password when the config has one;
\* any other error is returned.  A standalone server needs no further
\* command: the client is built and cached.
DetectReply(t) ==
    /\ gc[t].pc = "detect"
    /\ \E o \in DetectOutcomes :
        LET first == IF gc[t].probes = 0 THEN o ELSE gc[t].first IN
        IF ~o.ok
        THEN /\ gc' = [gc EXCEPT ![t] =
                        IF gc[t].cleared \/ ReturnsFirstError(get_config(gc[t].name), o)
                        THEN [@ EXCEPT !.pc = "done", !.ret = o, !.first = first,
                                       !.probes = @ + 1, !.io = @ + 1]
                        ELSE [@ EXCEPT !.cleared = TRUE, !.first = first,
                                       !.probes = @ + 1, !.io = @ + 1]]
             /\ UNCHANGED clients
        ELSE IF o.server_type = "Standalone"
        THEN BuildAndCache(t, <<RedisNode(get_config(gc[t].name).url, "Master", NoMasterName)>>,
                           o.server_type,
                           [gc[t] EXCEPT !.first = first, !.probes = @ + 1, !.io = @ + 1])
        ELSE /\ gc' = [gc EXCEPT ![t].pc = "enumerate", ![t].server_type = o.server_type,
                                 ![t].first = first,
                                 ![t].probes = @ + 1, ![t].io = @ + 1]
             /\ UNCHANGED clients
    /\ UNCHANGED <<PoolVars, au, sg, nd, pf, views>>

\* The Sentinel branch over the records of SENTINEL MASTERS: the records of
\* another master than the configured one are skipped.
SentinelNodes_NoFilter(config, records) ==
    [i \in 1..Len(records) |-> RedisNode(records[i].addr, "Master", records[i].name)]

SentinelNodes(config, records) ==
    LET kept(r) == config.master_name = NoMasterName \/ r.name = config.master_name
        wanted == SelectSeq(records, kept)
    IN [i \in 1..Len(wanted) |-> RedisNode(wanted[i].addr, "Master", wanted[i].name)]

MultipleMasters ==
    Err("Multiple masters found in Sentinel, please specify master_name", 0)

\* The reply to CLUSTER NODES or SENTINEL MASTERS (or the failure of the
\* connection or of the command); then the client is built and cached.
EnumerateReply(t) ==
    /\ gc[t].pc = "enumerate"
    /\ \/ /\ gc' = [gc EXCEPT ![t].pc = "done", ![t].io = @ + 1,
                               ![t].ret = Err("IoError", 0)]
          /\ UNCHANGED clients
       \/ /\ gc[t].server_type = "Cluster"
          /\ \E nodes \in ClusterReplies :
              BuildAndCache(t, nodes, "Cluster",
                            [gc[t] EXCEPT !.io = @ + 1, !.enumerated = TRUE,
                                          !.reply = nodes])
       \/ /\ gc[t].server_type = "Sentinel"
          /\ \E records \in SentinelReplies :
              LET nodes == SentinelNodes(get_config(gc[t].name), records)
                  frame == [gc[t] EXCEPT !.io = @ + 1, !.enumerated = TRUE,
                                         !.reply = records]
              IN
              IF Cardinality({nodes[i].master_name : i \in 1..Len(nodes)}) > 1
              THEN /\ gc' = [gc EXCEPT ![t] =
                              [frame EXCEPT !.pc = "done", !.ret = MultipleMasters]]
                   /\ UNCHANGED clients
              ELSE BuildAndCache(t, nodes, "Sentinel", frame)
    /\ UNCHANGED <<PoolVars, au, sg, nd, pf, views>>

InitCache ==
    /\ pool = [k \in Keys |-> NoSession]
    /\ sessCfg = [s \in Sessions |-> 0]
    /\ sessDb = [s \in Sessions |-> 0]
    /\ sessPinged = {}
    /\ nextSid = 0
    /\ srvAccepts = {}
    /\ tk = [t \in Procs |-> IdleFrame]
    /\ lastInsert = [k \in Keys |-> NoSession]
    /\ au = [t \in Tasks |-> IdleAuth]
    /\ sg = IdleCall
    /\ nd = [i \in Nodes |-> IdleNode]
    /\ clients = [name \in Names |-> NoClient]
    /\ gc = [t \in Tasks |-> IdleGet]
    /\ pf = IdlePure
    /\ NoViews

NextCache ==
    \/ \E t \in Tasks : GetClient(t)
    \/ \E t \in Tasks : DetectReply(t)
    \/ \E t \in Tasks : EnumerateReply(t)

SpecCache == InitCache /\ [][NextCache]_vars

(***************************************************************************)
(* parse_address                                                           *)
(* A string is a sequence of characters.                                   *)
(***************************************************************************)
MaxPieces == 5
U16Max == 65535

\* The address strings handed to parse_address: up to MaxPieces pieces, put
\* together in any order.
Pieces ==
    {<<"h">>, <<":">>, <<"@">>, <<"0">>, <<"8">>, <<"+">>,
     <<"6", "5", "5", "3", "5">>, <<"6", "5", "5", "3", "6">>}
RECURSIVE Concat(_)
Concat(list) == IF list = <<>> THEN <<>> ELSE list[1] \o Concat(Tail(list))
AddressInputs == {Concat(l) : l \in UNION {[1..n -> Pieces] : n \in 0..MaxPieces}}

Digits == <<"0", "1", "2", "3", "4", "5", "6", "7", "8", "9">>
IsDigit(c) == \E i \in DOMAIN Digits : Digits[i] = c
DigitValue(c) == (CHOOSE i \in DOMAIN Digits : Digits[i] = c) - 1

\* str::split_once(c): the parts before and after the first c
split_once(str, c) ==
    IF \E i \in 1..Len(str) : str[i] = c
    THEN LET at == CHOOSE i \in 1..Len(str) :
                       str[i] = c /\ \A j \in 1..(i - 1) : str[j] # c
         IN [found |-> TRUE, left |-> SubSeq(str, 1, at - 1),
             right |-> SubSeq(str, at + 1, Len(str))]
    ELSE [found |-> FALSE, left |-> str, right |-> <<>>]

Overflowed == -1
RECURSIVE CheckedDecimal(_, _)
\* the digits from left to right with checked_mul and checked_add
CheckedDecimal(digits, acc) ==
    IF digits = <<>> THEN acc
    ELSE LET value == 10 * acc + DigitValue(digits[1]) IN
         IF value > U16Max THEN Overflowed
         ELSE CheckedDecimal(Tail(digits), value)

RECURSIVE WrappingDecimal(_, _)
WrappingDecimal(digits, acc) ==
    IF digits = <<>> THEN acc
    ELSE WrappingDecimal(Tail(digits), (10 * acc + DigitValue(digits[1])) % (U16Max + 1))

ParseIntError == [ok |-> FALSE]
\* str::parse::<u16>(): an optional `+`, then one decimal digit at least,
\* and a value that fits 16 bits
parse_u16_Wrapping(str) ==
    LET digits == IF str # <<>> /\ str[1] = "+" THEN Tail(str) ELSE str IN
    IF digits = <<>> \/ \E i \in 1..Len(digits) : ~IsDigit(digits[i])
    THEN ParseIntError
    ELSE [ok |-> TRUE, value |-> WrappingDecimal(digits, 0)]

parse_u16(str) ==
    LET digits == IF str # <<>> /\ str[1] = "+" THEN Tail(str) ELSE str IN
    IF digits = <<>> \/ \E i \in 1..Len(digits) : ~IsDigit(digits[i])
    THEN ParseIntError
    ELSE IF CheckedDecimal(digits, 0) = Overflowed THEN ParseIntError
    ELSE [ok |-> TRUE, value |-> CheckedDecimal(digits, 0)]

NoPort == -1
OkAddress(ip, port, cport) == [ok |-> TRUE, ip |-> ip, port |-> port, cport |-> cport]

parse_address_AnyBusPort(address_str) ==
    LET at == split_once(address_str, "@")
        addr_part == IF at.found THEN at.left ELSE address_str
        colon == split_once(addr_part, ":")
        port == parse_u16(colon.right)
        cport == parse_u16(at.right)
    IN
    IF ~colon.found THEN Err("Invalid address format", 0)
    ELSE IF ~port.ok THEN Err("Invalid port", 0)
    ELSE OkAddress(colon.left, port.value,
                   IF at.found /\ cport.ok THEN cport.value ELSE NoPort)

parse_address(address_str) ==
    LET at == split_once(address_str, "@")
        addr_part == IF at.found THEN at.left ELSE address_str
        colon == split_once(addr_part, ":")
        port == parse_u16(colon.right)
        cport == parse_u16(at.right)
    IN
    IF ~colon.found THEN Err("Invalid address format", 0)
    ELSE IF ~port.ok THEN Err("Invalid port", 0)
    ELSE IF at.found /\ ~cport.ok THEN Err("Invalid cluster bus port", 0)
    ELSE OkAddress(colon.left, port.value, IF at.found THEN cport.value ELSE NoPort)

RECURSIVE ToDecimal(_)
\* Display of an unsigned integer
ToDecimal(n) ==
    IF n < 10 THEN <<Digits[n + 1]>>
    ELSE ToDecimal(n \div 10) \o <<Digits[(n % 10) + 1]>>

\* format!("{}:{}", host, port)
FormatAddress(host, port) == host \o <<":">> \o ToDecimal(port)

\* No connection, no call, no client.
NoConnections ==
    /\ pool = [k \in Keys |-> NoSession]
    /\ sessCfg = [s \in Sessions |-> 0]
    /\ sessDb = [s \in Sessions |-> 0]
    /\ sessPinged = {}
    /\ nextSid = 0
    /\ srvAccepts = {}
    /\ tk = [t \in Procs |-> IdleFrame]
    /\ lastInsert = [k \in Keys |-> NoSession]
    /\ au = [t \in Tasks |-> IdleAuth]
    /\ sg = IdleCall
    /\ nd = [i \in Nodes |-> IdleNode]
    /\ clients = [name \in Names |-> NoClient]
    /\ gc = [t \in Tasks |-> IdleGet]
ConnectionVars == <<PoolVars, au, sg, nd, clients, gc>>

ParseAddress ==
    /\ pf.pc = "idle"
    /\ pf' = [pf EXCEPT !.pc = "done", !.op = "parse_address",
                        !.ret = parse_address(pf.input)]
    /\ UNCHANGED <<ConnectionVars, views>>

InitAddr ==
    /\ NoConnections
    /\ NoViews
    /\ \E str \in AddressInputs : pf = [IdlePure EXCEPT !.input = str]

NextAddr == ParseAddress

SpecAddr == InitAddr /\ [][NextAddr]_vars

(***************************************************************************)
(* parse_cluster_nodes                                                     *)
(***************************************************************************)
MaxRecords == 2
MaxFlags == 3
MinFields == 8

Whitespace == {" ", "\t", "\n", "\f"}
HasAny(str, chars) == \E i \in 1..Len(str) : str[i] \in chars
FirstOf(str, chars) ==
    CHOOSE i \in 1..Len(str) : str[i] \in chars /\ \A j \in 1..(i - 1) : str[j] \notin chars

RECURSIVE SplitOn(_, _)
\* str::split: the parts between the separators, empty parts included
SplitOn(str, chars) ==
    IF ~HasAny(str, chars) THEN <<str>>
    ELSE <<SubSeq(str, 1, FirstOf(str, chars) - 1)>>
         \o SplitOn(SubSeq(str, FirstOf(str, chars) + 1, Len(str)), chars)

NotEmpty(str) == str # <<>>
\* str::split_whitespace: the non-empty parts between runs of whitespace
split_whitespace(str) == SelectSeq(SplitOn(str, Whitespace), NotEmpty)

RECURSIVE trim_start(_)
trim_start(str) ==
    IF str # <<>> /\ str[1] \in Whitespace THEN trim_start(Tail(str)) ELSE str
RECURSIVE trim_end(_)
trim_end(str) ==
    IF str # <<>> /\ str[Len(str)] \in Whitespace
    THEN trim_end(SubSeq(str, 1, Len(str) - 1)) ELSE str
\* str::trim
trim(str) == trim_end(trim_start(str))

\* str::lines: the parts between line feeds, no last empty line
lines(str) ==
    LET parts == SplitOn(str, {"\n"}) IN
    IF parts[Len(parts)] = <<>> THEN SubSeq(parts, 1, Len(parts) - 1) ELSE parts

Word_master == <<"m", "a", "s", "t", "e", "r">>
Word_slave == <<"s", "l", "a", "v", "e">>
Word_fail == <<"f", "a", "i", "l">>
Word_pfail == <<"f", "a", "i", "l", "?">>
Word_myself == <<"m", "y", "s", "e", "l", "f">>

\* the role of a record from the set of its flags
RoleOf_FailFirst(flags) ==
    IF Word_fail \in flags THEN "Fail"
    ELSE IF Word_master \in flags THEN "Master"
    ELSE IF Word_slave \in flags THEN "Slave"
    ELSE "Unknown"

RoleOf(flags) ==
    IF Word_master \in flags THEN "Master"
    ELSE IF Word_slave \in flags THEN "Slave"
    ELSE IF Word_fail \in flags THEN "Fail"
    ELSE "Unknown"

ClusterNodeInfo(ip, port, role) == [ip |-> ip, port |-> port, role |-> role]
OkNodes(nodes) == [ok |-> TRUE, nodes |-> nodes]
SetOf(list) == {list[i] : i \in 1..Len(list)}

RECURSIVE ParseLines_Break(_, _)
ParseLines_Break(remaining, nodes) ==
    IF remaining = <<>> THEN OkNodes(nodes)
    ELSE LET parts == split_whitespace(remaining[1])
             address == parse_address(parts[2])
         IN
         IF Len(parts) < MinFields THEN OkNodes(nodes)
         ELSE IF ~address.ok THEN address
         ELSE ParseLines_Break(Tail(remaining),
                  Append(nodes, ClusterNodeInfo(address.ip, address.port,
                                    RoleOf(SetOf(SplitOn(parts[3], {","}))))))

RECURSIVE ParseLines(_, _)
\* the `for line in ...` loop from the lines not yet read, with the nodes
\* pushed so far
ParseLines(remaining, nodes) ==
    IF remaining = <<>> THEN OkNodes(nodes)
    ELSE LET parts == split_whitespace(remaining[1])
             address == parse_address(parts[2])
         IN
         IF Len(parts) < MinFields THEN ParseLines(Tail(remaining), nodes)
         ELSE IF ~address.ok THEN address
         ELSE ParseLines(Tail(remaining),
                  Append(nodes, ClusterNodeInfo(address.ip, address.port,
                                    RoleOf(SetOf(SplitOn(parts[3], {","}))))))

parse_cluster_nodes(raw_data) == ParseLines(lines(trim(raw_data)), <<>>)

\* The CLUSTER NODES replies handed to parse_cluster_nodes.  A record is
\* written from its shape: the kind of its address, its flags and its number
\* of fields (0: an empty line).
AddressKinds == {"plain", "bus", "hostname"}
AddressText(kind) ==
    IF kind = "plain" THEN <<"h", ":", "8">>
    ELSE IF kind = "bus" THEN <<"g", ":", "8", "0", "@", "8">>
    ELSE <<"h", ":", "8", "@", "8", ",", "h">>
FlagWords == {Word_master, Word_slave, Word_fail, Word_pfail, Word_myself}
FieldCounts == {0, MinFields - 1, MinFields, MinFields + 1}

RECURSIVE Join(_, _)
Join(parts, separator) ==
    IF parts = <<>> THEN <<>>
    ELSE IF Len(parts) = 1 THEN parts[1]
    ELSE parts[1] \o separator \o Join(Tail(parts), separator)

\* node id, two blanks, then address, flags and filler fields a blank apart
RecordText(shape) ==
    LET fields == <<AddressText(shape.addr), Join(shape.flags, <<",">>)>>
                  \o [i \in 1..(MinFields - 2) |-> <<"x">>]
    IN IF shape.n = 0 THEN <<>>
       ELSE <<"i", " ", " ">> \o Join(SubSeq(fields, 1, shape.n - 1), <<" ">>)
\* the reply: a line feed before the first record and after each record
ReplyText(shapes) ==
    <<"\n">> \o Concat([i \in 1..Len(shapes) |-> RecordText(shapes[i]) \o <<"\n">>])

RecordShapes ==
    [addr : AddressKinds, flags : {<<Word_master>>, <<Word_myself, Word_slave>>},
     n : FieldCounts]
FlagShapes ==
    [addr : {"plain"}, flags : UNION {[1..k -> FlagWords] : k \in 1..MaxFlags},
     n : {MinFields}]
ReplyShapes ==
    UNION {[1..k -> RecordShapes] : k \in 0..MaxRecords}
    \cup {<<shape>> : shape \in FlagShapes}

ParseClusterNodes ==
    /\ pf.pc = "idle"
    /\ pf' = [pf EXCEPT !.pc = "done", !.op = "parse_cluster_nodes",
                        !.ret = parse_cluster_nodes(pf.input)]
    /\ UNCHANGED <<ConnectionVars, views>>

InitNodes ==
    /\ NoConnections
    /\ NoViews
    /\ \E shapes \in ReplyShapes :
        pf = [IdlePure EXCEPT !.input = ReplyText(shapes), !.shape = shapes]

NextNodes == ParseClusterNodes

SpecNodes == InitNodes /\ [][NextNodes]_vars

(***************************************************************************)
(* try_open_with_preset_credentials as a function of its arguments, of the *)
(* pool and of the server: what the server answers is fixed by its policy, *)
(* a pooled session answers the PING probe when it is live.  The function  *)
(* is run on the empty pool and on a pool that holds one session.          *)
(***************************************************************************)
\* the credentials accepted on a new transport, and whether the server admits
\* a new transport at all (it may have reached its limit of clients)
ServerPolicies == [accepts : SUBSET Configs, admits : BOOLEAN]
HeldStates == {"absent", "live", "dead"}
AuthKeys == Configs \X Dbs
EmptyPool == [k \in AuthKeys |-> "absent"]
PoolContents ==
    {EmptyPool} \cup {[EmptyPool EXCEPT ![k] = held] :
                         k \in AuthKeys, held \in {"live", "dead"}}
OkOpened(reused) == [ok |-> TRUE, reused |-> reused]

\* open_single_connection(config, db), as attempt n of its caller: the pooled
\* session if its PING is answered, else a new transport, SELECT and PING
open_single_connection(config, db, held, server, n) ==
    IF held[KeyOf(config, db)] = "live" THEN OkOpened(TRUE)
    ELSE IF ~server.admits THEN Err("IoError", n)
    ELSE IF config \in server.accepts THEN OkOpened(FALSE)
    ELSE IF config = NoPassword THEN Err("NOAUTH", n)
    ELSE Err("AuthenticationFailed", n)

FallbackRun(ret, attempts) == [ret |-> ret, attempts |-> attempts]
OkSource(r, source) == [ok |-> TRUE, reused |-> r.reused, source |-> source]

RECURSIVE PresetLoop(_, _, _, _)
\* for (index, credential) in preset_credentials.iter().enumerate()
PresetLoop(call, index, last_error, attempts) ==
    IF index > Len(call.presets)
    THEN FallbackRun(IF last_error = None THEN GenericError ELSE last_error, attempts)
    ELSE LET credential == call.presets[index]
             test_config == with_credential(call.config, credential)
             r == open_single_connection(test_config, call.db, call.held,
                                         call.server, Len(attempts) + 1)
         IN IF r.ok
            THEN FallbackRun(OkSource(r, SourcePreset(index - 1, credential)),
                             Append(attempts, test_config))
            ELSE PresetLoop(call, index + 1, r, Append(attempts, test_config))

try_open_with_preset_credentials(call) ==
    LET r == open_single_connection(call.config, call.db, call.held, call.server, 1)
    IN IF r.ok THEN FallbackRun(OkSource(r, SourceOfConfig(call.config)), <<call.config>>)
       ELSE IF ~is_auth_error(r) \/ call.config # NoPassword
       THEN FallbackRun(r, <<call.config>>)
       ELSE PresetLoop(call, 1, None, <<call.config>>)

FallbackCall(input, held) ==
    [config |-> input.config, db |-> input.db, presets |-> input.presets,
     server |-> input.server, held |-> held]

\* the run on the empty pool
TryOpenOnEmptyPool ==
    /\ pf.pc = "idle"
    /\ pf' = [pf EXCEPT !.pc = "first", !.op = "try_open_with_preset_credentials",
                        !.ret = <<try_open_with_preset_credentials(
                                      FallbackCall(pf.input, EmptyPool))>>]
    /\ UNCHANGED <<ConnectionVars, views>>

\* the run with the same arguments and server on the pool pf.input.held
TryOpenOnPool ==
    /\ pf.pc = "first"
    /\ pf' = [pf EXCEPT !.pc = "done",
                        !.ret = Append(@, try_open_with_preset_credentials(
                                              FallbackCall(pf.input, pf.input.held)))]
    /\ UNCHANGED <<ConnectionVars, views>>

InitRuns ==
    /\ NoConnections
    /\ NoViews
    /\ \E config \in Configs, db \in Dbs, presets \in PresetLists,
          server \in ServerPolicies, held \in PoolContents :
        pf = [IdlePure EXCEPT !.input = [config |-> config, db |-> db,
                                         presets |-> presets, server |-> server,
                                         held |-> held]]

NextRuns == TryOpenOnEmptyPool \/ TryOpenOnPool

SpecRuns == InitRuns /\ [][NextRuns]_vars

(***************************************************************************)
(* Claims on the two runs of the fallback (specification SpecRuns).        *)
(***************************************************************************)
BothRun == pf.pc = "done" /\ pf.op = "try_open_with_preset_credentials"
OutcomeOf(run) == IF run.ret.ok THEN run.ret.source ELSE run.ret

\* C22: the run on the empty pool and the run on any other pool, with the
\* same config, database, presets and server, have the same outcome (the
\* same AuthSource or the same error) and the same sequence of attempts.
C22_SameOutcomeOnAnyPool ==
    BothRun =>
        /\ OutcomeOf(pf.ret[1]) = OutcomeOf(pf.ret[2])
        /\ pf.ret[1].attempts = pf.ret[2].attempts

\* The server requires the password 1, the config has none, the preset list
\* holds it; the pool holds a live session opened without password: the run
\* on the empty pool reports Preset(0, 1), the other reports None.
C22_PoolDecides ==
    /\ BothRun
    /\ pf.input.config = NoPassword /\ pf.input.presets = <<1>>
    /\ pf.input.server = [accepts |-> {1}, admits |-> TRUE]
    /\ pf.input.held[KeyOf(NoPassword, pf.input.db)] = "live"
    /\ pf.ret[1].ret.source = SourcePreset(0, 1) /\ pf.ret[1].attempts = <<NoPassword, 1>>
    /\ pf.ret[2].ret.source = SourceNone /\ pf.ret[2].attempts = <<NoPassword>>

\* Without a live session under the key of an attempt the pool decides
\* nothing.
C22_SameWithoutLiveSession ==
    (BothRun /\ \A k \in AuthKeys : pf.input.held[k] # "live") =>
        pf.ret[1] = pf.ret[2]

(***************************************************************************)
(* detect_server_type: connect, ROLE, and unless the reply is the sentinel *)
(* role, INFO cluster and its cluster_enabled field.  pf.input is what the *)
(* server answers to the connection and to each command, pf.sent the       *)
(* commands issued so far.                                                 *)
(***************************************************************************)
CmdRole == "ROLE"
CmdInfoCluster == "INFO cluster"
OkServerType(server_type) == [ok |-> TRUE, server_type |-> server_type]
Roles == {"Primary", "Replica", "Sentinel"}
OkRole(role) == [ok |-> TRUE, role |-> role]
Missing == <<>>
OkInfo(cluster_enabled) == [ok |-> TRUE, cluster_enabled |-> cluster_enabled]

Connected == [ok |-> TRUE]
ConnectReplies == {Connected, Err("AuthenticationFailed", 0), Err("IoError", 0)}
RoleReplies == {OkRole(role) : role \in Roles} \cup {Err("NOAUTH", 0), Err("IoError", 0)}
\* the INFO cluster reply: the text of its cluster_enabled line, if any
InfoReplies ==
    {OkInfo(text) : text \in {Missing, <<"1">>, <<"0">>, <<"2">>, <<"+", "1">>,
                               <<"-", "1">>, <<"y">>}}
    \cup {Err("IoError", 0)}
ServerScripts == [connect : ConnectReplies, role : RoleReplies, info : InfoReplies]

RECURSIVE Decimal(_, _)
Decimal(digits, acc) ==
    IF digits = <<>> THEN acc
    ELSE Decimal(Tail(digits), 10 * acc + DigitValue(digits[1]))

\* str::parse::<i64>: an optional sign, then one decimal digit or more
parse_i64(str) ==
    LET signed == str # <<>> /\ str[1] \in {"+", "-"}
        digits == IF signed THEN Tail(str) ELSE str
    IN IF digits = <<>> \/ \E i \in 1..Len(digits) : ~IsDigit(digits[i])
       THEN None
       ELSE [ok |-> TRUE, none |-> FALSE,
             value |-> IF signed /\ str[1] = "-" THEN 0 - Decimal(digits, 0)
                       ELSE Decimal(digits, 0)]

\* InfoDict::get::<i64>: None for a missing field or one that is no integer
InfoGet(info) ==
    IF info.cluster_enabled = Missing THEN None ELSE parse_i64(info.cluster_enabled)

\* info.get("cluster_enabled").unwrap_or(0i64)
cluster_enabled_DefaultOne(info) ==
    IF InfoGet(info).ok THEN InfoGet(info).value ELSE 1
cluster_enabled(info) ==
    IF InfoGet(info).ok THEN InfoGet(info).value ELSE 0

\* client.get_multiplexed_async_connection().await?
DetectConnect ==
    /\ pf.pc = "idle"
    /\ pf' = IF pf.input.connect.ok
             THEN [pf EXCEPT !.pc = "connected", !.op = "detect_server_type"]
             ELSE [pf EXCEPT !.pc = "done", !.op = "detect_server_type",
                             !.ret = pf.input.connect]
    /\ UNCHANGED <<ConnectionVars, views>>

\* cmd("ROLE").query_async(&mut conn).await? and the test for Role::Sentinel
DetectRole ==
    /\ pf.pc = "connected"
    /\ LET role == pf.input.role
           asked == [pf EXCEPT !.sent = Append(@, CmdRole)]
       IN pf' = IF ~role.ok THEN [asked EXCEPT !.pc = "done", !.ret = role]
                ELSE IF role.role = "Sentinel"
                THEN [asked EXCEPT !.pc = "done", !.ret = OkServerType("Sentinel")]
                ELSE [asked EXCEPT !.pc = "role"]
    /\ UNCHANGED <<ConnectionVars, views>>

\* cmd("INFO").arg("cluster").query_async(&mut conn).await? and the flag
DetectInfo ==
    /\ pf.pc = "role"
    /\ LET info == pf.input.info
           asked == [pf EXCEPT !.sent = Append(@, CmdInfoCluster), !.pc = "done"]
       IN pf' = IF ~info.ok THEN [asked EXCEPT !.ret = info]
                ELSE IF cluster_enabled(info) = 1
                THEN [asked EXCEPT !.ret = OkServerType("Cluster")]
                ELSE [asked EXCEPT !.ret = OkServerType("Standalone")]
    /\ UNCHANGED <<ConnectionVars, views>>

InitDetect ==
    /\ NoConnections
    /\ NoViews
    /\ \E script \in ServerScripts : pf = [IdlePure EXCEPT !.input = script]

NextDetect == DetectConnect \/ DetectRole \/ DetectInfo

SpecDetect == InitDetect /\ [][NextDetect]_vars

(***************************************************************************)
(* helpers/codec.rs: the conversions between editor text and bytes.        *)
(* A text is a sequence of characters, bytes are a sequence of 0..255.     *)
(* JSON values are the numbers and the arrays: [num |-> n], [arr |-> list]. *)
(***************************************************************************)
\* the characters of the texts and their UTF-8 codes (one byte each)
CharCodes ==
    <<<<"^A", 1>>, <<"^B", 2>>, <<"\n", 10>>, <<"\f", 12>>, <<" ", 32>>, <<",", 44>>,
      <<"0", 48>>, <<"1", 49>>, <<"2", 50>>, <<"3", 51>>, <<"4", 52>>,
      <<"5", 53>>, <<"6", 54>>, <<"7", 55>>, <<"8", 56>>, <<"9", 57>>,
      <<"[", 91>>, <<"]", 93>>,
      <<"a", 97>>, <<"b", 98>>, <<"c", 99>>, <<"d", 100>>, <<"e", 101>>, <<"f", 102>>>>
CodeOf(c) == CharCodes[CHOOSE i \in DOMAIN CharCodes : CharCodes[i][1] = c][2]
CharOf(b) == CharCodes[CHOOSE i \in DOMAIN CharCodes : CharCodes[i][2] = b][1]
HasChar(b) == \E i \in DOMAIN CharCodes : CharCodes[i][2] = b
Invalid(message) == [ok |-> FALSE, msg |-> message]
OkText(text) == [ok |-> TRUE, text |-> text]
OkBytes(bytes) == [ok |-> TRUE, bytes |-> bytes]
OkValue(value) == [ok |-> TRUE, value |-> value]

\* text.as_bytes().to_vec()
as_bytes(text) == [i \in 1..Len(text) |-> CodeOf(text[i])]
\* String::from_utf8(bytes): the bytes from 0x80 on stand alone here, which
\* no UTF-8 text allows
from_utf8(bytes) ==
    IF \A i \in 1..Len(bytes) : bytes[i] < 128 /\ HasChar(bytes[i])
    THEN OkText([i \in 1..Len(bytes) |-> CharOf(bytes[i])])
    ELSE Invalid("Invalid UTF-8")

\* bytes_to_hex: two lowercase hexadecimal digits a byte, a blank between
HexDigits == <<"0", "1", "2", "3", "4", "5", "6", "7", "8", "9",
               "a", "b", "c", "d", "e", "f">>
HexOfByte(b) == <<HexDigits[(b \div 16) + 1], HexDigits[(b % 16) + 1]>>
bytes_to_hex(bytes) == Join([i \in 1..Len(bytes) |-> HexOfByte(bytes[i])], <<" ">>)

IsHexDigit(c) == \E i \in DOMAIN HexDigits : HexDigits[i] = c
HexValue(c) == (CHOOSE i \in DOMAIN HexDigits : HexDigits[i] = c) - 1
NotWhitespace(c) == c \notin Whitespace
\* hex_to_bytes: whitespace removed, an even number of characters, every
\* pair a byte in base 16
hex_to_bytes(hex) ==
    LET cleaned == SelectSeq(hex, NotWhitespace) IN
    IF Len(cleaned) % 2 # 0
    THEN Invalid("Hex string must have even number of characters")
    ELSE IF \E i \in 1..Len(cleaned) : ~IsHexDigit(cleaned[i])
    THEN Invalid("Invalid hex character")
    ELSE OkBytes([i \in 1..(Len(cleaned) \div 2) |->
                    16 * HexValue(cleaned[2 * i - 1]) + HexValue(cleaned[2 * i])])

Num(n) == [num |-> n]
Arr(list) == [arr |-> list]
IsNum(value) == "num" \in DOMAIN value
JsonWhitespace == {" ", "\n"}

RECURSIVE SkipWhitespace(_)
SkipWhitespace(text) ==
    IF text # <<>> /\ text[1] \in JsonWhitespace THEN SkipWhitespace(Tail(text)) ELSE text

\* the digits a text starts with
RECURSIVE LeadingDigits(_)
LeadingDigits(text) ==
    IF text # <<>> /\ IsDigit(text[1]) THEN <<text[1]>> \o LeadingDigits(Tail(text))
    ELSE <<>>

Parsed(value, rest) == [ok |-> TRUE, value |-> value, rest |-> rest]
SyntaxError == [ok |-> FALSE]

\* serde_json's parser: a value at the head of the text, and what follows it.
\* A number is 0 or digits that do not start with 0.
RECURSIVE ParseJsonValue(_)
RECURSIVE ParseJsonElements(_, _)
ParseJsonValue(text) ==
    LET t == SkipWhitespace(text) IN
    IF t = <<>> THEN SyntaxError
    ELSE IF IsDigit(t[1])
    THEN LET digits == LeadingDigits(t) IN
         IF t[1] = "0" /\ Len(digits) > 1 THEN SyntaxError
         ELSE Parsed(Num(Decimal(digits, 0)), SubSeq(t, Len(digits) + 1, Len(t)))
    ELSE IF t[1] = "["
    THEN LET inner == SkipWhitespace(Tail(t)) IN
         IF inner # <<>> /\ inner[1] = "]" THEN Parsed(Arr(<<>>), Tail(inner))
         ELSE ParseJsonElements(inner, <<>>)
    ELSE SyntaxError
\* the elements of an array after `[` or `,`, up to the closing `]`
ParseJsonElements(text, elements) ==
    LET element == ParseJsonValue(text) IN
    IF ~element.ok THEN SyntaxError
    ELSE LET t == SkipWhitespace(element.rest)
             list == Append(elements, element.value)
         IN IF t = <<>> THEN SyntaxError
            ELSE IF t[1] = "," THEN ParseJsonElements(Tail(t), list)
            ELSE IF t[1] = "]" THEN Parsed(Arr(list), Tail(t))
            ELSE SyntaxError

\* serde_json::from_str: one value and nothing but whitespace after it
WholeValue(parsed) ==
    IF parsed.ok /\ SkipWhitespace(parsed.rest) = <<>> THEN OkValue(parsed.value)
    ELSE Invalid("Invalid JSON")
from_str(text) == WholeValue(ParseJsonValue(text))

\* serde_json::to_vec / to_string: the compact text
RECURSIVE to_string(_)
to_string(value) ==
    IF IsNum(value) THEN ToDecimal(value.num)
    ELSE <<"[">>
         \o Join([i \in 1..Len(value.arr) |-> to_string(value.arr[i])], <<",">>)
         \o <<"]">>

Indent(depth) == [i \in 1..(2 * depth) |-> " "]
\* serde_json::to_string_pretty: an element a line, two blanks a level
RECURSIVE PrettyAt(_, _)
PrettyAt(value, depth) ==
    IF IsNum(value) THEN ToDecimal(value.num)
    ELSE IF value.arr = <<>> THEN <<"[", "]">>
    ELSE <<"[", "\n">>
         \o Join([i \in 1..Len(value.arr) |->
                     Indent(depth + 1) \o PrettyAt(value.arr[i], depth + 1)],
                 <<",", "\n">>)
         \o <<"\n">> \o Indent(depth) \o <<"]">>
to_string_pretty(value) == PrettyAt(value, 0)

\* MessagePack: a number below 128 is one byte (positive fixint), an array of
\* fewer than 16 elements is 0x90 + length and its elements (fixarray)
FixArray == 144
MaxFixInt == 127
MaxFixArray == 15
RECURSIVE rmp_to_vec(_)
rmp_to_vec(value) ==
    IF IsNum(value) THEN <<value.num>>
    ELSE <<FixArray + Len(value.arr)>>
         \o Concat([i \in 1..Len(value.arr) |-> rmp_to_vec(value.arr[i])])

Read(value, rest) == [ok |-> TRUE, value |-> value, rest |-> rest]
Unreadable == [ok |-> FALSE]
\* the value at the head of the bytes and the bytes after it
RECURSIVE RmpRead(_)
RECURSIVE RmpReadElements(_, _, _)
RmpRead(bytes) ==
    IF bytes = <<>> THEN Unreadable
    ELSE IF bytes[1] <= MaxFixInt THEN Read(Num(bytes[1]), Tail(bytes))
    ELSE IF bytes[1] >= FixArray /\ bytes[1] <= FixArray + MaxFixArray
    THEN RmpReadElements(Tail(bytes), bytes[1] - FixArray, <<>>)
    ELSE Unreadable
RmpReadElements(bytes, count, elements) ==
    IF count = 0 THEN Read(Arr(elements), bytes)
    ELSE LET element == RmpRead(bytes) IN
         IF ~element.ok THEN Unreadable
         ELSE RmpReadElements(element.rest, count - 1, Append(elements, element.value))

\* rmp_serde::from_slice: the first value of the bytes
FirstValue(read) ==
    IF read.ok THEN OkValue(read.value) ELSE Invalid("Invalid MessagePack")
rmp_from_slice(bytes) == FirstValue(RmpRead(bytes))

\* is_valid_messagepack: a container that takes up all the bytes
ReadsAll(read) == read.ok /\ read.rest = <<>>
is_valid_messagepack(bytes) ==
    /\ bytes # <<>>
    /\ bytes[1] >= FixArray /\ bytes[1] <= FixArray + MaxFixArray
    /\ ReadsAll(RmpRead(bytes))

EditFormats == {"Text", "Json", "Hex", "MessagePack", "ProtobufJson"}

\* serde_json::to_string_pretty(&value) of a value that was read
PrettyText(value) ==
    IF value.ok THEN OkText(to_string_pretty(value.value)) ELSE value
JsonTextOf(text) == IF ~text.ok THEN text ELSE PrettyText(from_str(text.text))
\* decode_to_text(bytes, format)
decode_to_text(bytes, format) ==
    IF format = "Text" THEN from_utf8(bytes)
    ELSE IF format = "Json" THEN JsonTextOf(from_utf8(bytes))
    ELSE IF format = "Hex" THEN OkText(bytes_to_hex(bytes))
    ELSE IF format = "MessagePack" THEN PrettyText(rmp_from_slice(bytes))
    ELSE Invalid("Protobuf decoding requires schema")

\* serde_json::to_vec(&value) and rmp_serde::to_vec(&value) of a value that
\* was read
CompactBytes(value) ==
    IF value.ok THEN OkBytes(as_bytes(to_string(value.value))) ELSE value
PackedBytes(value) ==
    IF value.ok THEN OkBytes(rmp_to_vec(value.value)) ELSE value
\* encode_from_text(text, format)
encode_from_text(text, format) ==
    IF format = "Text" THEN OkBytes(as_bytes(text))
    ELSE IF format = "Json" THEN CompactBytes(from_str(text))
    ELSE IF format = "Hex" THEN hex_to_bytes(text)
    ELSE IF format = "MessagePack" THEN PackedBytes(from_str(text))
    ELSE Invalid("Protobuf encoding requires schema")

\* validate_format(text, format)
UnitOf(result) == IF result.ok THEN [ok |-> TRUE] ELSE result
validate_format(text, format) ==
    IF format = "Text" THEN [ok |-> TRUE]
    ELSE IF format = "Hex" THEN UnitOf(hex_to_bytes(text))
    ELSE UnitOf(from_str(text))

\* detect_content(bytes), for bytes that carry no compression header
InBrackets(trimmed) ==
    trimmed # <<>> /\ trimmed[1] = "[" /\ trimmed[Len(trimmed)] = "]"
ContentOf(bytes, text) ==
    IF text.ok
    THEN IF InBrackets(trim(text.text)) /\ from_str(text.text).ok THEN "Json" ELSE "Text"
    ELSE IF is_valid_messagepack(bytes) THEN "MessagePack"
    ELSE "Binary"
detect_content(bytes) ==
    IF bytes = <<>> THEN "Text" ELSE ContentOf(bytes, from_utf8(bytes))

\* suggest_edit_format(content, is_utf8)
suggest_edit_format(content, is_utf8) ==
    IF content = "Json" THEN "Json"
    ELSE IF content = "MessagePack" THEN "MessagePack"
    ELSE IF content = "Protobuf" THEN "ProtobufJson"
    ELSE IF content = "Text" THEN "Text"
    ELSE IF is_utf8 THEN "Text" ELSE "Hex"

(***************************************************************************)
(* states/edit_session.rs: EditSession.  es.session is the session, the    *)
(* other fields of es are history: the bytes it was created from, the      *)
(* session before the last call, the last two calls, the last result,      *)
(* whether set_editor_text has been called, and the formats asked for.     *)
(***************************************************************************)
NoError == "None"
OkUnit == [ok |-> TRUE]

\* the values the editor is opened on: empty, the text 12, the JSON texts
\* [1,2] and [[1],2], the MessagePack arrays [1,2] and [[1],5], and a
\* MessagePack array cut short. detect_compression finds no header in any
\* of them: those of four bytes and more declare, read as an LZ4 size
\* prefix, more than MAX_DECOMPRESS_BYTES.
OriginalBytes ==
    {<<>>, <<49, 50>>, <<91, 49, 44, 50, 93>>, <<91, 91, 49, 93, 44, 50, 93>>,
     <<146, 1, 2>>, <<146, 145, 1, 5>>, <<146, 1>>}
\* what the user types: [2], the unfinished [2, the hexadecimal text of the
\* JSON text [2] and that of the MessagePack array [2]
TypedTexts ==
    {<<"[", "2", "]">>, <<"[", "2">>,
     <<"5", "b", " ", "3", "2", " ", "5", "d">>, <<"9", "1", " ", "0", "2">>}

\* EditSession::new(key, raw)
NewSession(raw) ==
    [original_bytes |-> raw, content |-> "Text", editor_format |-> "Text",
     editor_text |-> <<>>, working_bytes |-> <<>>, dirty |-> FALSE,
     valid |-> TRUE, error |-> NoError]

Outcome(session, ret) == [session |-> session, ret |-> ret]

\* refresh_editor_text(allow_fallback)
FallenBack(self, hex) ==
    IF hex.ok
    THEN Outcome([self EXCEPT !.editor_format = "Hex", !.editor_text = hex.text,
                              !.valid = TRUE, !.error = "Switched to Hex"], OkUnit)
    ELSE Outcome([self EXCEPT !.editor_format = "Hex"], hex)
Refreshed(self, allow_fallback, text) ==
    IF text.ok
    THEN Outcome([self EXCEPT !.editor_text = text.text, !.valid = TRUE,
                              !.error = NoError], OkUnit)
    ELSE IF allow_fallback
    THEN FallenBack(self, decode_to_text(self.working_bytes, "Hex"))
    ELSE Outcome([self EXCEPT !.valid = FALSE, !.error = text.msg], text)
refresh_editor_text(self, allow_fallback) ==
    Refreshed(self, allow_fallback, decode_to_text(self.working_bytes, self.editor_format))

\* detect_and_init(), on bytes without compression header
Suggested(self, content) ==
    [self EXCEPT !.content = content,
                 !.working_bytes = self.original_bytes,
                 !.editor_format =
                     suggest_edit_format(content, from_utf8(self.original_bytes).ok)]
Initialized(refreshed) ==
    IF ~refreshed.ret.ok THEN refreshed
    ELSE Outcome([refreshed.session EXCEPT !.dirty = FALSE, !.valid = TRUE,
                                           !.error = NoError], OkUnit)
detect_and_init(self) ==
    Initialized(refresh_editor_text(Suggested(self, detect_content(self.original_bytes)),
                                    TRUE))

\* serde_json::from_slice(&bytes), and on an error from_utf8 and from_str
JsonOfText(text) == IF text.ok THEN from_str(text.text) ELSE Invalid("Invalid UTF-8")
ParseJsonBytes(bytes) == JsonOfText(from_utf8(bytes))

\* the end of the two MessagePack branches: the error of refresh_editor_text
\* is passed on as it is
MarkedDirty(refreshed) ==
    IF ~refreshed.ret.ok THEN refreshed
    ELSE Outcome([refreshed.session EXCEPT !.dirty = TRUE], OkUnit)

\* Json <-> MessagePack: the editor text is JSON in both
Stored(formatted, fmt, bytes) ==
    IF ~bytes.ok THEN Outcome(formatted, bytes)
    ELSE Outcome([formatted EXCEPT !.working_bytes = bytes.bytes,
                                   !.editor_format = fmt, !.dirty = TRUE,
                                   !.valid = TRUE, !.error = NoError], OkUnit)
Reencoded(formatted, fmt) ==
    Stored(formatted, fmt, encode_from_text(formatted.editor_text, fmt))
Reformatted(self, fmt, value) ==
    IF ~value.ok THEN Outcome(self, value)
    ELSE Reencoded([self EXCEPT !.editor_text = to_string_pretty(value.value)], fmt)
SwitchJsonMessagePack(self, fmt) == Reformatted(self, fmt, from_str(self.editor_text))

\* the other switches: the bytes of the editor text are decoded in the new
\* format, and everything is put back when that fails
RolledBack(self, refreshed) ==
    IF ~refreshed.ret.ok
    THEN Outcome([refreshed.session EXCEPT
                      !.working_bytes = self.working_bytes,
                      !.editor_format = self.editor_format,
                      !.editor_text = self.editor_text,
                      !.valid = self.valid, !.error = self.error],
                 refreshed.ret)
    ELSE Outcome([refreshed.session EXCEPT !.dirty = TRUE], OkUnit)
Decoded(self, fmt, bytes) ==
    IF ~bytes.ok THEN Outcome(self, bytes)
    ELSE RolledBack(self,
                    refresh_editor_text([self EXCEPT !.working_bytes = bytes.bytes,
                                                     !.editor_format = fmt], FALSE))
SwitchByteLevel(self, fmt) ==
    Decoded(self, fmt, encode_from_text(self.editor_text, self.editor_format))

\* to MessagePack from Text, Hex or ProtobufJson: the bytes of the editor text
\* are read as JSON and written as MessagePack
PackedValue(self, fmt, value) ==
    IF ~value.ok THEN Outcome(self, Invalid("Cannot convert to MessagePack"))
    ELSE MarkedDirty(refresh_editor_text([self EXCEPT !.working_bytes = rmp_to_vec(value.value),
                                                      !.editor_format = fmt], FALSE))
ReadAsJson(self, fmt, bytes) ==
    IF ~bytes.ok THEN Outcome(self, bytes)
    ELSE PackedValue(self, fmt, ParseJsonBytes(bytes.bytes))
SwitchToMessagePack_ByteLevel(self, fmt) ==
    Decoded(self, fmt, encode_from_text(self.editor_text, self.editor_format))
SwitchToMessagePack(self, fmt) ==
    ReadAsJson(self, fmt, encode_from_text(self.editor_text, self.editor_format))

\* from MessagePack to Text, Hex or ProtobufJson: working_bytes is read as
\* MessagePack and written as JSON
WrittenAsJson(self, fmt, value) ==
    IF ~value.ok THEN Outcome(self, value)
    ELSE MarkedDirty(refresh_editor_text(
             [self EXCEPT !.working_bytes = as_bytes(to_string(value.value)),
                          !.editor_format = fmt], FALSE))
SwitchFromMessagePack(self, fmt) ==
    WrittenAsJson(self, fmt, rmp_from_slice(self.working_bytes))

\* EditSession::set_editor_format(fmt)
set_editor_format(self, fmt) ==
    IF fmt = self.editor_format THEN Outcome(self, OkUnit)
    ELSE IF \/ self.editor_format = "Json" /\ fmt = "MessagePack"
            \/ self.editor_format = "MessagePack" /\ fmt = "Json"
    THEN SwitchJsonMessagePack(self, fmt)
    ELSE IF fmt = "MessagePack" THEN SwitchToMessagePack(self, fmt)
    ELSE IF self.editor_format = "MessagePack" THEN SwitchFromMessagePack(self, fmt)
    ELSE SwitchByteLevel(self, fmt)

\* EditSession::set_editor_text(text)
Validated(self, text, checked) ==
    [self EXCEPT !.editor_text = text, !.dirty = TRUE,
                 !.valid = checked.ok,
                 !.error = IF checked.ok THEN NoError ELSE checked.msg]
set_editor_text(self, text) ==
    IF text = self.editor_text THEN self
    ELSE Validated(self, text, validate_format(text, self.editor_format))

\* EditSession::build_save_bytes(), save_compression being None
build_save_bytes(self) ==
    IF ~self.valid
    THEN Invalid(IF self.error = NoError THEN "Invalid data" ELSE self.error)
    ELSE encode_from_text(self.editor_text, self.editor_format)

Called(name, arg) == [name |-> name, arg |-> arg]
LastTwo(calls, call) == IF calls = <<>> THEN <<call>> ELSE <<calls[Len(calls)], call>>

\* The editor is opened on a value: new() and detect_and_init().
Opened(raw, outcome) ==
    [pc |-> "open", session |-> outcome.session, before |-> NewSession(raw),
     calls |-> <<Called("detect_and_init", raw)>>, ret |-> outcome.ret,
     edited |-> FALSE, formats |-> {}]
OpenEditor ==
    /\ es.pc = "none"
    /\ \E raw \in OriginalBytes : es' = Opened(raw, detect_and_init(NewSession(raw)))
    /\ UNCHANGED <<ConnectionVars, pf, lv, sc, zs>>

\* The user picks a format.
Switched(fmt, outcome) ==
    [es EXCEPT !.session = outcome.session, !.before = es.session,
               !.calls = LastTwo(@, Called("set_editor_format", fmt)),
               !.ret = outcome.ret, !.formats = @ \cup {fmt}]
SetEditorFormat ==
    /\ es.pc = "open"
    /\ \E fmt \in EditFormats : es' = Switched(fmt, set_editor_format(es.session, fmt))
    /\ UNCHANGED <<ConnectionVars, pf, lv, sc, zs>>

\* The user changes the text.
SetEditorText ==
    /\ es.pc = "open"
    /\ \E text \in TypedTexts :
        es' = [es EXCEPT !.session = set_editor_text(es.session, text),
                         !.before = es.session,
                         !.calls = LastTwo(@, Called("set_editor_text", text)),
                         !.ret = OkUnit, !.edited = TRUE]
    /\ UNCHANGED <<ConnectionVars, pf, lv, sc, zs>>

InitEdit ==
    /\ NoConnections
    /\ pf = IdlePure
    /\ NoViews

NextEdit == OpenEditor \/ SetEditorFormat \/ SetEditorText

SpecEdit == InitEdit /\ [][NextEdit]_vars

(***************************************************************************)
(* Claims on the edit session (specification SpecEdit).                    *)
(***************************************************************************)
EditorOpen == es.pc = "open"
LastCall == es.calls[Len(es.calls)]
FormatCalled == EditorOpen /\ LastCall.name = "set_editor_format"
EditState(session) ==
    <<session.editor_format, session.editor_text, session.working_bytes,
      session.valid, session.error, session.dirty>>

\* C24: when set_editor_format returns an error, editor_format, editor_text,
\* working_bytes, valid, error and dirty are what they were before the call.
C24_RollbackOnError ==
    (FormatCalled /\ ~es.ret.ok) => EditState(es.session) = EditState(es.before)

\* The failing switch of C24: a MessagePack session asked for ProtobufJson
\* is left in ProtobufJson, invalid, with JSON bytes.
C24_NotRolledBack ==
    /\ FormatCalled /\ ~es.ret.ok
    /\ es.before.editor_format = "MessagePack" /\ LastCall.arg = "ProtobufJson"
    /\ es.session.editor_format = "ProtobufJson"
    /\ ~es.session.valid /\ es.before.valid
    /\ es.session.working_bytes # es.before.working_bytes

\* The byte-level switches do roll back: the Hex text 91 02, which is no
\* UTF-8, asked for Text.
C24_RolledBackReached ==
    /\ FormatCalled /\ ~es.ret.ok
    /\ es.before.editor_format = "Hex" /\ LastCall.arg = "Text"
    /\ es.before.editor_text = <<"9", "1", " ", "0", "2">>
    /\ EditState(es.session) = EditState(es.before)

ValueFormats == {"Json", "MessagePack"}
\* what a text says in a format: a JSON value, or bytes
Denoted(text, format) ==
    IF format \in ValueFormats THEN from_str(text) ELSE encode_from_text(text, format)
JsonOf(d) == IF "value" \in DOMAIN d THEN d ELSE ParseJsonBytes(d.bytes)
SameContent(a, b) ==
    /\ a.ok /\ b.ok
    /\ IF "bytes" \in DOMAIN a /\ "bytes" \in DOMAIN b THEN a.bytes = b.bytes
       ELSE JsonOf(a).ok /\ JsonOf(b).ok /\ JsonOf(a).value = JsonOf(b).value
\* set_editor_text(t), t valid, and then a successful set_editor_format(f)
TextThenFormat ==
    /\ EditorOpen /\ Len(es.calls) = 2
    /\ es.calls[1].name = "set_editor_text" /\ es.calls[2].name = "set_editor_format"
    /\ es.before.valid /\ es.before.editor_text = es.calls[1].arg
    /\ es.ret.ok

\* C25: after set_editor_text(t), t valid for the format, a successful
\* set_editor_format(f) leaves an editor text, and bytes to save, that say
\* in format f what t said in the format it was typed in.
C25_ConvertsTypedText ==
    (TextThenFormat /\ es.session.editor_format # es.before.editor_format) =>
        LET typed == Denoted(es.calls[1].arg, es.before.editor_format)
            saved == build_save_bytes(es.session)
        IN /\ SameContent(Denoted(es.session.editor_text, es.session.editor_format), typed)
           /\ saved.ok
           /\ decode_to_text(saved.bytes, es.session.editor_format).ok
           /\ SameContent(Denoted(decode_to_text(saved.bytes, es.session.editor_format).text,
                                  es.session.editor_format), typed)

\* The failing switch of C25: [2] typed over [1,2] in MessagePack format,
\* then Hex: the editor shows the bytes of the JSON text of the old value.
C25_TypedTextLost ==
    /\ TextThenFormat
    /\ es.before.editor_format = "MessagePack" /\ es.session.editor_format = "Hex"
    /\ es.calls[1].arg = <<"[", "2", "]">>
    /\ hex_to_bytes(es.session.editor_text).bytes # as_bytes(<<"[", "2", "]">>)
    /\ ParseJsonBytes(hex_to_bytes(es.session.editor_text).bytes).value # Arr(<<Num(2)>>)

\* The other switches convert the typed text: [2] typed in Hex, then Json.
C25_ConvertedReached ==
    /\ TextThenFormat
    /\ es.before.editor_format = "Hex" /\ es.session.editor_format = "Json"
    /\ from_str(es.session.editor_text) = OkValue(Arr(<<Num(2)>>))

SwitchFormats == {"Json", "Hex", "MessagePack"}
\* the value of the bytes the editor was opened on
OriginalValue ==
    IF es.session.content = "Json"
    THEN from_str(from_utf8(es.session.original_bytes).text).value
    ELSE rmp_from_slice(es.session.original_bytes).value
OnlySwitched ==
    /\ EditorOpen /\ ~es.edited
    /\ es.session.content \in {"Json", "MessagePack"}
    /\ es.formats \subseteq SwitchFormats

C26_ThroughHexReached ==
    /\ OnlySwitched /\ es.session.content = "Json"
    /\ es.before.editor_format = "Hex" /\ es.session.editor_format = "MessagePack"
    /\ es.session.working_bytes = <<146, 1, 2>>

\* the bytes of the session are those the codec model covers: from_utf8 meets
\* a byte from 0x80 on, or only bytes of CharCodes, and a byte from 0x80 on
\* is a fixarray header
EditBytesCovered ==
    EditorOpen =>
        LET bytes == es.session.working_bytes IN
        /\ \A i \in 1..Len(bytes) :
              bytes[i] <= MaxFixInt \/ (bytes[i] >= FixArray /\ bytes[i] <= FixArray + MaxFixArray)
        /\ (\A i \in 1..Len(bytes) : bytes[i] <= MaxFixInt) =>
              \A i \in 1..Len(bytes) : HasChar(bytes[i])

(***************************************************************************)
(* ZedisServerState::update_list_value, states/server/list.rs.  The server *)
(* holds the elements of one list as bytes, the view holds them as display *)
(* strings; the background task sends LINDEX and LSET as two commands, and *)
(* other clients send their own LSET between any two steps.                *)
(***************************************************************************)
MaxLen == 2
MaxWrites == 2
Replacement == "U+FFFD"
\* the elements on the server: a, b and one byte that is no UTF-8
ElementBytes == {<<97>>, <<98>>, <<255>>}
\* String::from_utf8_lossy: a byte from 0x80 on, standing alone, becomes U+FFFD
from_utf8_lossy(bytes) ==
    [i \in 1..Len(bytes) |-> IF bytes[i] < 128 THEN CharOf(bytes[i]) ELSE Replacement]
\* bytes_to_display_string(bytes), for bytes without compression header
bytes_to_display_string(bytes) == from_utf8_lossy(bytes)
DisplayStrings == {bytes_to_display_string(bytes) : bytes \in ElementBytes}
\* what the user types into an element
NewValues == {<<"a">>, <<"b">>}
ServerLists == UNION {[1..n -> ElementBytes] : n \in 1..MaxLen}
\* first_load_list_value: the elements as display strings
LoadedValues(server) == [i \in 1..Len(server) |-> bytes_to_display_string(server[i])]
NotReplaced == [none |-> TRUE]
ValueChanged == Invalid("Value changed, update aborted.")
ListLoaded(server) ==
    [pc |-> "idle", server |-> server, values |-> LoadedValues(server),
     status |-> "Idle", index |-> 0, original_value |-> <<>>, new_value |-> <<>>,
     ret |-> OkUnit, calls |-> 0, replaced |-> NotReplaced, writes |-> 0]

\* update_list_value(index, original_value, new_value, cx), up to the spawn,
\* for an index within the list: the element of the view is set at once
UpdateListValue ==
    /\ lv.pc = "idle" /\ lv.calls = 0
    /\ \E index \in 1..Len(lv.values), original_value \in DisplayStrings, new_value \in NewValues :
          lv' = [lv EXCEPT !.pc = "spawned", !.status = "Updating",
                           !.index = index, !.original_value = original_value,
                           !.new_value = new_value, !.calls = 1,
                           !.values = IF index <= Len(lv.values)
                                      THEN [lv.values EXCEPT ![index] = new_value]
                                      ELSE lv.values]
    /\ UNCHANGED <<ConnectionVars, pf, es, sc, zs>>

\* the task: get_connection fails
TaskNoConnection ==
    /\ lv.pc = "spawned"
    /\ lv' = [lv EXCEPT !.pc = "returned", !.ret = Invalid("connection")]
    /\ UNCHANGED <<ConnectionVars, pf, es, sc, zs>>

\* the task: LINDEX key index, and the comparison of the display strings
TaskLindex ==
    /\ lv.pc = "spawned"
    /\ LET current_value == bytes_to_display_string(lv.server[lv.index]) IN
       lv' = IF current_value # lv.original_value
             THEN [lv EXCEPT !.pc = "returned", !.ret = ValueChanged]
             ELSE [lv EXCEPT !.pc = "checked"]
    /\ UNCHANGED <<ConnectionVars, pf, es, sc, zs>>

\* the task: LSET key index new_value
TaskLset ==
    /\ lv.pc = "checked"
    /\ lv' = [lv EXCEPT !.pc = "returned", !.ret = OkUnit,
                        !.replaced = [bytes |-> lv.server[lv.index]],
                        !.server = [lv.server EXCEPT ![lv.index] = as_bytes(lv.new_value)]]
    /\ UNCHANGED <<ConnectionVars, pf, es, sc, zs>>

\* the callback, on the thread of the view
UpdateListCallback ==
    /\ lv.pc = "returned"
    /\ lv' = [lv EXCEPT !.pc = "idle", !.status = "Idle",
                        !.values = IF ~lv.ret.ok /\ lv.index <= Len(lv.values)
                                   THEN [lv.values EXCEPT ![lv.index] = lv.original_value]
                                   ELSE lv.values]
    /\ UNCHANGED <<ConnectionVars, pf, es, sc, zs>>

\* another client: LSET key i bytes
OtherClientLset ==
    /\ lv.pc # "none" /\ lv.writes < MaxWrites
    /\ \E i \in 1..Len(lv.server), bytes \in ElementBytes :
          /\ bytes # lv.server[i]
          /\ lv' = [lv EXCEPT !.server = [lv.server EXCEPT ![i] = bytes], !.writes = @ + 1]
    /\ UNCHANGED <<ConnectionVars, pf, es, sc, zs>>

InitList ==
    /\ NoConnections /\ pf = IdlePure
    /\ es = NoEditSession /\ sc = NoSchema /\ zs = NoServerState
    /\ \E server \in ServerLists : lv = ListLoaded(server)
NextList ==
    \/ UpdateListValue
    \/ TaskNoConnection
    \/ TaskLindex
    \/ TaskLset
    \/ UpdateListCallback
    \/ OtherClientLset
SpecList == InitList /\ [][NextList]_vars

(***************************************************************************)
(* Claims on update_list_value (specification SpecList).                   *)
(***************************************************************************)
LsetApplied == lv.pc # "none" /\ lv.replaced # NotReplaced
UpdateReturned == lv.pc = "idle" /\ lv.calls = 1

\* C27: the LSET of update_list_value replaces only an element that is, as
\* display string, original_value, whatever other clients do between the
\* commands of the task; and when the check fails the task returns an error
\* and the element of the view is original_value again.
C27_OptimisticLock ==
    /\ LsetApplied => bytes_to_display_string(lv.replaced.bytes) = lv.original_value
    /\ (UpdateReturned /\ lv.ret = ValueChanged) =>
          lv.values[lv.index] = lv.original_value

\* The lost update of C27: the check saw a, another client wrote the byte
\* ff, and the LSET replaced it by b.
C27_Overwritten ==
    /\ LsetApplied /\ lv.writes = 1
    /\ lv.original_value = <<"a">> /\ lv.new_value = <<"b">>
    /\ lv.replaced.bytes = <<255>>
    /\ lv.server[lv.index] = <<98>>

\* Without a command of another client between LINDEX and LSET the replaced
\* element is original_value, and a failed check restores the view.
C27_CheckedThenSet ==
    /\ (LsetApplied /\ lv.writes = 0) =>
          bytes_to_display_string(lv.replaced.bytes) = lv.original_value
    /\ (UpdateReturned /\ ~lv.ret.ok /\ lv.index <= Len(lv.values)) =>
          lv.values[lv.index] = lv.original_value

C27_FailedCheckReached ==
    /\ UpdateReturned /\ lv.ret = ValueChanged /\ lv.writes = 1
    /\ lv.values[lv.index] = lv.original_value
    /\ bytes_to_display_string(lv.server[lv.index]) # lv.original_value

(***************************************************************************)
(* ProtobufSchema, states/server/protobuf.rs.  protoc and the parsing of   *)
(* its output are an input of load_proto_files: they fail, or give the     *)
(* messages of the compiled files.                                         *)
(***************************************************************************)
Nothing == [nothing |-> TRUE]
Some(value) == [some |-> value]
\* the names of the messages, in the order of sort()
TypeNames == <<"a.A", "a.B", "b.C">>
TypeNameSet == {TypeNames[i] : i \in DOMAIN TypeNames}
\* a name no file declares
UnknownType == "z.Z"
ProtoPathLists == {<<>>, <<"a.proto">>, <<"b.proto">>, <<"a.proto", "b.proto">>}
\* the answers of protoc, FileDescriptorSet::decode and DescriptorPool: an
\* error, or the set of the messages of the pool
ProtocFailed == [ok |-> FALSE]
ProtocAnswers == {ProtocFailed} \cup {[ok |-> TRUE, messages |-> ms] : ms \in SUBSET TypeNameSet}
RECURSIVE SortedFrom(_, _)
\* the names of the set from the i-th name on, in the order of sort()
SortedFrom(names, i) ==
    IF i > Len(TypeNames) THEN <<>>
    ELSE IF TypeNames[i] \in names THEN <<TypeNames[i]>> \o SortedFrom(names, i + 1)
    ELSE SortedFrom(names, i + 1)
\* pool.all_messages() collected and sorted
SortedTypes(names) == SortedFrom(names, 1)
contains(list, x) == \E i \in 1..Len(list) : list[i] = x
first(list) == IF list = <<>> THEN Nothing ELSE Some(list[1])

\* ProtobufSchema::new()
NewSchema ==
    [proto_files |-> <<>>, pool |-> Nothing, message_types |-> <<>>, selected_type |-> Nothing]

\* set_selected_type(type_name)
set_selected_type(self, type_name) ==
    IF contains(self.message_types, type_name)
    THEN [self EXCEPT !.selected_type = Some(type_name)]
    ELSE self

load_proto_files_KeepSelected(self, proto_paths, protoc) ==
    IF proto_paths = <<>> THEN [schema |-> self, ret |-> Invalid("No proto files provided")]
    ELSE IF ~protoc.ok THEN [schema |-> self, ret |-> Invalid("protoc failed")]
    ELSE LET message_types == SortedTypes(protoc.messages) IN
         [schema |-> [proto_files |-> proto_paths, pool |-> Some(protoc.messages),
                      message_types |-> message_types,
                      selected_type |-> self.selected_type],
          ret |-> OkUnit]
\* load_proto_files(proto_paths): nothing is assigned before the pool is built
load_proto_files(self, proto_paths, protoc) ==
    IF proto_paths = <<>> THEN [schema |-> self, ret |-> Invalid("No proto files provided")]
    ELSE IF ~protoc.ok THEN [schema |-> self, ret |-> Invalid("protoc failed")]
    ELSE LET message_types == SortedTypes(protoc.messages) IN
         [schema |-> [proto_files |-> proto_paths, pool |-> Some(protoc.messages),
                      message_types |-> message_types,
                      selected_type |->
                          IF self.selected_type # Nothing
                          THEN IF ~contains(message_types, self.selected_type.some)
                               THEN first(message_types)
                               ELSE self.selected_type
                          ELSE IF message_types # <<>> THEN Some(message_types[1])
                          ELSE Nothing],
          ret |-> OkUnit]

\* clear()
clear(self) ==
    [proto_files |-> <<>>, pool |-> Nothing, message_types |-> <<>>, selected_type |-> Nothing]

\* sc: the schema, the schema before the last call, the last call and its
\* result
SchemaCreated ==
    [pc |-> "open", schema |-> NewSchema, before |-> NewSchema,
     call |-> [name |-> "new"], ret |-> OkUnit]

SetSelectedType ==
    /\ sc.pc = "open"
    /\ \E type_name \in TypeNameSet \cup {UnknownType} :
          sc' = [sc EXCEPT !.schema = set_selected_type(sc.schema, type_name),
                           !.before = sc.schema,
                           !.call = [name |-> "set_selected_type", type_name |-> type_name],
                           !.ret = OkUnit]
    /\ UNCHANGED <<ConnectionVars, pf, es, lv, zs>>

LoadProtoFiles ==
    /\ sc.pc = "open"
    /\ \E proto_paths \in ProtoPathLists, protoc \in ProtocAnswers :
          LET loaded == load_proto_files(sc.schema, proto_paths, protoc) IN
          sc' = [sc EXCEPT !.schema = loaded.schema,
                           !.before = sc.schema,
                           !.call = [name |-> "load_proto_files", proto_paths |-> proto_paths],
                           !.ret = loaded.ret]
    /\ UNCHANGED <<ConnectionVars, pf, es, lv, zs>>

Clear ==
    /\ sc.pc = "open"
    /\ sc' = [sc EXCEPT !.schema = clear(sc.schema), !.before = sc.schema,
                        !.call = [name |-> "clear"], !.ret = OkUnit]
    /\ UNCHANGED <<ConnectionVars, pf, es, lv, zs>>

InitSchema ==
    /\ NoConnections /\ pf = IdlePure
    /\ es = NoEditSession /\ lv = NoListView /\ zs = NoServerState
    /\ sc = SchemaCreated
NextSchema == SetSelectedType \/ LoadProtoFiles \/ Clear
SpecSchema == InitSchema /\ [][NextSchema]_vars

(***************************************************************************)
(* Claims on ProtobufSchema (specification SpecSchema).                    *)
(***************************************************************************)
SchemaOpen == sc.pc = "open"

\* C29: after any calls of set_selected_type, load_proto_files and clear on
\* a new schema, selected_type is None or one of message_types; a
\* set_selected_type with a name that is not in message_types changes
\* nothing, and a load_proto_files that fails changes nothing.
C29_SelectedIsListed ==
    SchemaOpen =>
        /\ sc.schema.selected_type = Nothing
             \/ contains(sc.schema.message_types, sc.schema.selected_type.some)
        /\ (sc.call.name = "set_selected_type"
               /\ ~contains(sc.before.message_types, sc.call.type_name)) =>
              sc.schema = sc.before
        /\ (sc.call.name = "load_proto_files" /\ ~sc.ret.ok) =>
              sc.schema = sc.before

\* A load fails on a schema that holds two types, the second selected.
C29_Witness ==
    /\ SchemaOpen
    /\ sc.call.name = "load_proto_files" /\ ~sc.ret.ok /\ sc.call.proto_paths # <<>>
    /\ sc.schema.message_types = <<"a.A", "a.B">>
    /\ sc.schema.selected_type = Some("a.B")
    /\ sc.schema.pool # Nothing

\* A reload without the selected type selects the first type of the new
\* schema, and none when the new schema has no message.
C29_ReselectedReached ==
    /\ SchemaOpen /\ sc.call.name = "load_proto_files" /\ sc.ret.ok
    /\ sc.before.selected_type = Some("a.A")
    /\ sc.schema.message_types = <<"a.B", "b.C">>
    /\ sc.schema.selected_type = Some("a.B")
C29_DeselectedReached ==
    /\ SchemaOpen /\ sc.call.name = "load_proto_files" /\ sc.ret.ok
    /\ sc.before.selected_type # Nothing
    /\ sc.schema.message_types = <<>>
    /\ sc.schema.selected_type = Nothing
C29_IgnoredReached ==
    /\ SchemaOpen /\ sc.call.name = "set_selected_type"
    /\ sc.call.type_name = "b.C"
    /\ sc.schema.message_types = <<"a.A", "a.B">>
    /\ sc.schema.selected_type = Some("a.A")

(***************************************************************************)
(* try_parse_raw_protobuf, helpers/protobuf.rs.  A u64 is kept as its      *)
(* groups of seven bits, lowest first, as decode_varint_safe reads them;   *)
(* the numbers computed from the groups stay below 2^31.                   *)
(***************************************************************************)
MAX_FIELD_SIZE == 16 * 1024 * 1024
MaxFieldNumber == 536870911
MaxVarintBytes == 10
TwoTo25 == 2 ^ 25
Group(groups, k) == IF k <= Len(groups) THEN groups[k] ELSE 0
\* (byte & 0x7F) << shift within 64 bits: the tenth group keeps one bit
GroupOfByte(byte, k) == IF k < MaxVarintBytes THEN byte % 128 ELSE (byte % 128) % 2

RECURSIVE ReadVarint(_, _, _)
ReadVarint(bytes, i, groups) ==
    IF i > Len(bytes) THEN Nothing
    ELSE IF i > MaxVarintBytes THEN Nothing
    ELSE IF bytes[i] < 128
    THEN Some([groups |-> Append(groups, GroupOfByte(bytes[i], i)), len |-> i])
    ELSE ReadVarint(bytes, i + 1, Append(groups, GroupOfByte(bytes[i], i)))
\* decode_varint_safe(bytes): the value and the number of bytes consumed
decode_varint_safe(bytes) == ReadVarint(bytes, 1, <<>>)

\* bytes[cursor..]
From(bytes, cursor) == SubSeq(bytes, cursor + 1, Len(bytes))
\* (key & 0x07) as u32
wire_type_val(key) == Group(key, 1) % 8
\* (key >> 3) as u32: bits 3 to 34 of the key, as the seven bits from bit 25
\* on and the 25 bits below
U32High(key) == Group(key, 5)
U32Low(key) ==
    (Group(key, 1) \div 8) + Group(key, 2) * 16 + Group(key, 3) * 2048
        + Group(key, 4) * 262144
\* field_number == 0 || field_number > 536870911
BadFieldNumber(key) ==
    \/ U32High(key) = 0 /\ U32Low(key) = 0
    \/ U32High(key) > MaxFieldNumber \div TwoTo25
field_number(key) == U32High(key) * TwoTo25 + U32Low(key)
\* usize::try_from(len).ok().filter(|&l| l <= MAX_FIELD_SIZE)
LenWithinLimit(len) ==
    /\ \A k \in 5..MaxVarintBytes : Group(len, k) = 0
    /\ Group(len, 1) + Group(len, 2) * 128 + Group(len, 3) * 16384
          + Group(len, 4) * 2097152 <= MAX_FIELD_SIZE
LenValue(len) ==
    Group(len, 1) + Group(len, 2) * 128 + Group(len, 3) * 16384 + Group(len, 4) * 2097152
Varint == 0
Fixed64 == 1
LengthDelimited == 2
Fixed32 == 5
WireTypes == {Varint, Fixed64, LengthDelimited, 3, 4, Fixed32}
Field(number, wire, payload) == [number |-> number, wire |-> wire, payload |-> payload]

RECURSIVE ParseFields(_, _, _)
\* the while loop of try_parse_raw_protobuf_with_depth, from a cursor on
ParseFields(bytes, cursor, fields) ==
    IF cursor >= Len(bytes)
    THEN IF fields = <<>> THEN Nothing ELSE Some(fields)
    ELSE
    LET key == decode_varint_safe(From(bytes, cursor)) IN
    IF key = Nothing THEN Nothing
    ELSE
    LET at == cursor + key.some.len
        wire == wire_type_val(key.some.groups)
    IN
    IF wire \notin WireTypes THEN Nothing
    ELSE IF BadFieldNumber(key.some.groups) THEN Nothing
    ELSE
    LET number == field_number(key.some.groups) IN
    IF wire = Varint
    THEN LET value == decode_varint_safe(From(bytes, at)) IN
         IF value = Nothing THEN Nothing
         ELSE ParseFields(bytes, at + value.some.len,
                          Append(fields, Field(number, wire, value.some.groups)))
    ELSE IF wire = Fixed64
    THEN IF at + 8 > Len(bytes) THEN Nothing
         ELSE ParseFields(bytes, at + 8,
                          Append(fields, Field(number, wire, SubSeq(bytes, at + 1, at + 8))))
    ELSE IF wire = LengthDelimited
    THEN LET len == decode_varint_safe(From(bytes, at)) IN
         IF len = Nothing THEN Nothing
         ELSE IF ~LenWithinLimit(len.some.groups) THEN Nothing
         ELSE LET start == at + len.some.len
                  end == start + LenValue(len.some.groups)
              IN IF end > Len(bytes) THEN Nothing
                 ELSE ParseFields(bytes, end,
                                  Append(fields, Field(number, wire, SubSeq(bytes, start + 1, end))))
    ELSE IF wire = Fixed32
    THEN IF at + 4 > Len(bytes) THEN Nothing
         ELSE ParseFields(bytes, at + 4,
                          Append(fields, Field(number, wire, SubSeq(bytes, at + 1, at + 4))))
    ELSE Nothing

\* try_parse_raw_protobuf(bytes): depth 0
try_parse_raw_protobuf(bytes) ==
    IF Len(bytes) < 2 THEN Nothing ELSE ParseFields(bytes, 0, <<>>)

\* The inputs: up to MaxFields pieces, each a field or a fragment of one.
MaxFields == 2
RawPieces ==
    {<<8, 0>>,                                   \* field 1, varint 0
     <<8, 128, 1>>,                              \* field 1, varint 128
     <<8, 128>>,                                 \* varint cut short
     <<8>>,                                      \* a key alone
     <<8, 255, 255, 255, 255, 255, 255, 255, 255, 255, 1>>,  \* varint of ten bytes
     <<255, 255, 255, 255, 255, 255, 255, 255, 255, 255, 1, 0>>, \* key of eleven bytes
     <<9, 1, 2, 3, 4, 5, 6, 7, 8>>,              \* field 1, fixed64
     <<9, 1, 2, 3>>,                             \* fixed64 cut short
     <<13, 1, 2, 3, 4>>,                         \* field 1, fixed32
     <<13, 1>>,                                  \* fixed32 cut short
     <<10, 0>>,                                  \* field 1, no bytes
     <<10, 2, 8, 0>>,                            \* field 1, two bytes
     <<10, 3, 1>>,                               \* bytes cut short
     <<10, 128, 128, 128, 8, 1>>,                \* length 16 MiB
     <<0, 0>>,                                   \* field number 0
     <<11, 0>>, <<12, 0>>, <<14, 0>>, <<15, 0>>, \* wire types 3, 4, 6, 7
     <<248, 255, 255, 255, 15, 0>>,              \* field 536870911
     <<128, 128, 128, 128, 16, 0>>,              \* field 536870912
     <<136, 128, 128, 128, 128, 1, 0>>}          \* field 4294967297
RawInputs == {Concat(pieces) : pieces \in UNION {[1..n -> RawPieces] : n \in 0..MaxFields}}

ParseRaw ==
    /\ pf.pc = "idle"
    /\ pf' = [pf EXCEPT !.pc = "done", !.op = "try_parse_raw_protobuf",
                        !.ret = try_parse_raw_protobuf(pf.input)]
    /\ UNCHANGED <<ConnectionVars, views>>
InitRaw ==
    /\ NoConnections
    /\ NoViews
    /\ \E bytes \in RawInputs : pf = [IdlePure EXCEPT !.input = bytes]
NextRaw == ParseRaw
SpecRaw == InitRaw /\ [][NextRaw]_vars

(***************************************************************************)
(* Claims on try_parse_raw_protobuf (specification SpecRaw).               *)
(***************************************************************************)
RawParsed == pf.pc = "done" /\ pf.op = "try_parse_raw_protobuf"
\* the bytes i to j are one complete varint
VarintAt(bytes, i, j) ==
    /\ i <= j /\ j <= Len(bytes) /\ j - i < MaxVarintBytes
    /\ bytes[j] < 128
    /\ \A k \in i..(j - 1) : bytes[k] >= 128
GroupsAt(bytes, i, j) == [k \in 1..(j - i + 1) |-> bytes[i + k - 1] % 128]
\* key >> 3 is in 1..=536870911: nothing from bit 32 on, below 2^29, not 0
NumberInRange(key) ==
    /\ \A k \in 6..MaxVarintBytes : Group(key, k) = 0
    /\ Group(key, 5) <= MaxFieldNumber \div TwoTo25
    /\ Group(key, 1) \div 8 # 0 \/ \E k \in 2..5 : Group(key, k) # 0
\* the same of the low 32 bits of key >> 3
NumberInRangeU32(key) ==
    /\ Group(key, 5) <= MaxFieldNumber \div TwoTo25
    /\ Group(key, 1) \div 8 # 0 \/ \E k \in 2..5 : Group(key, k) # 0
\* the bytes i to j are one field: a key with a field number in range and a
\* wire type in {0, 1, 2, 5}, and the whole payload
FieldAt(bytes, i, j, wide) ==
    \E k \in i..j :
        /\ VarintAt(bytes, i, k)
        /\ LET key == GroupsAt(bytes, i, k)
               wire == key[1] % 8
           IN /\ IF wide THEN NumberInRange(key) ELSE NumberInRangeU32(key)
              /\ \/ wire = Varint /\ VarintAt(bytes, k + 1, j)
                 \/ wire = Fixed64 /\ j = k + 8
                 \/ wire = Fixed32 /\ j = k + 4
                 \/ /\ wire = LengthDelimited
                    /\ \E m \in (k + 1)..j :
                          /\ VarintAt(bytes, k + 1, m)
                          /\ LenWithinLimit(GroupsAt(bytes, k + 1, m))
                          /\ LenValue(GroupsAt(bytes, k + 1, m)) = j - m
RECURSIVE FieldsFrom(_, _, _)
FieldsFrom(bytes, i, wide) ==
    \/ i = Len(bytes) + 1
    \/ \E j \in i..Len(bytes) : FieldAt(bytes, i, j, wide) /\ FieldsFrom(bytes, j + 1, wide)
\* the whole input is a sequence of fields, one at least
IsMessage(bytes, wide) == bytes # <<>> /\ FieldsFrom(bytes, 1, wide)

\* C28: try_parse_raw_protobuf returns a message only if the whole input is
\* a sequence of one or more fields, each with a field number in
\* 1..=536870911, a wire type in {0, 1, 2, 5} and its whole payload (a
\* length-delimited one of 16 MiB at most); an input of fewer than 2 bytes
\* gives None.
C28_OnlyWellFormed ==
    RawParsed =>
        /\ pf.ret # Nothing => IsMessage(pf.input, TRUE)
        /\ Len(pf.input) < 2 => pf.ret = Nothing

\* The input of C28 that is parsed although its field number is 2^32 + 1:
\* the message returned holds field 1.
C28_WideNumberAccepted ==
    /\ RawParsed
    /\ pf.input = <<136, 128, 128, 128, 128, 1, 0>>
    /\ pf.ret = Some(<<Field(1, Varint, <<0>>)>>)

\* With the field number taken from the low 32 bits of key >> 3, as the
\* code takes it, a message is returned exactly for the well-formed inputs
\* of 2 bytes and more.
C28_ExactOnLow32Bits ==
    RawParsed =>
        (pf.ret # Nothing <=> (Len(pf.input) >= 2 /\ IsMessage(pf.input, FALSE)))

C28_TwoFieldsReached ==
    /\ RawParsed /\ pf.ret # Nothing
    /\ Len(pf.ret.some) = 2
    /\ pf.ret.some[1].wire = LengthDelimited /\ pf.ret.some[1].payload = <<8, 0>>
    /\ pf.ret.some[2].number = MaxFieldNumber
C28_LimitReached ==
    /\ RawParsed /\ pf.ret = Nothing
    /\ pf.input = <<10, 128, 128, 128, 8, 1>>

(***************************************************************************)
(* The list operations of ZedisServerState, states/server/list.rs:         *)
(* remove_list_value, push_list_value, update_list_value and               *)
(* load_more_list_value, each a synchronous part, a background task and a  *)
(* completion callback that ZedisServerState::spawn runs on the state when *)
(* the task has returned.  Several tasks are in flight at once, and the    *)
(* selection of a key replaces this.value between any two steps.  The      *)
(* server holds the elements of each key; a usize is written as its        *)
(* residue nearest to zero, so that -1 stands for usize::MAX.              *)
(***************************************************************************)
\* elements of a list on the server
MaxItems == 2
\* the elements one LRANGE of the view asks for (100 in the program)
PageSize == 1
\* one run starts two operations, whose tasks may be in flight together,
\* and selects a key once
TaskSlots == {1, 2}
ListKeys == {"A", "B"}
Items == {"a", "b"}
\* the list of key A when it is loaded: a, b, a, ... up to MaxItems elements
ItemLists == {[i \in 1..n |-> IF i % 2 = 1 THEN "a" ELSE "b"] : n \in 0..MaxItems}
\* the positions a caller passes, counted from 1 here
Indexes == 1..MaxItems

ListData(size, values) == [list |-> TRUE, size |-> size, values |-> values]
NoListData == [list |-> FALSE]
RedisValueOf(data, status) == [data |-> data, status |-> status]

\* get_redis_list_value(conn, key, start, stop): LRANGE, both ends included,
\* positions counted from 0
get_redis_list_value(elements, start, stop) ==
    SubSeq(elements, start + 1, IF stop + 1 < Len(elements) THEN stop + 1 ELSE Len(elements))

\* first_load_list_value(conn, key): LLEN and the first page
first_load_list_value(elements) ==
    RedisValueOf(ListData(Len(elements), get_redis_list_value(elements, 0, PageSize - 1)), "Idle")

\* what the selection of a key puts into this.value: the loaded list, or a
\* value without list data when the server has no such key
LoadedValue(elements) ==
    IF elements = <<>> THEN RedisValueOf(NoListData, "Idle")
    ELSE first_load_list_value(elements)

FreeSlot == [pc |-> "free"]
NoDecrement == [none |-> TRUE]
NoCallback == [none |-> TRUE]

\* list.values.insert(0, v), list.values.remove(index), list.values.pop()
InsertFirst(values, v) == <<v>> \o values
RemoveAt(values, index) ==
    [i \in 1..(Len(values) - 1) |-> IF i < index THEN values[i] ELSE values[i + 1]]
Pop(values) == IF values = <<>> THEN values ELSE SubSeq(values, 1, Len(values) - 1)
\* list.values.remove(0); on a vector without elements it panics, which is
\* RemovesFromEmpty below
RemoveFirst(values) == IF values = <<>> THEN values ELSE Tail(values)

\* overflow_checks: whether the build panics on an integer overflow
ItemsOpen(server, overflow_checks) ==
    [pc |-> "items", overflow_checks |-> overflow_checks, key |-> "A", value |-> LoadedValue(server["A"]),
     server |-> server, tasks |-> [s \in TaskSlots |-> FreeSlot],
     ops |-> 0, reselected |-> FALSE, foreign |-> FALSE, dec |-> NoDecrement, last |-> NoCallback,
     panicked |-> FALSE]

HasValue == lv.pc = "items" /\ ~lv.panicked /\ lv.value # Nothing
IsList(value) == value # Nothing /\ value.data.list
\* the first free slot takes the task that is spawned
SlotFree(s) ==
    /\ lv.tasks[s].pc = "free"
    /\ \A r \in TaskSlots : r < s => lv.tasks[r].pc # "free"
Spawned(op, index, is_lpush, pushed_value, original_value, new_value, start) ==
    [pc |-> "spawned", op |-> op, key |-> lv.key, index |-> index,
     is_lpush |-> is_lpush, pushed_value |-> pushed_value,
     original_value |-> original_value, new_value |-> new_value,
     start |-> start, ok |-> FALSE, new_values |-> <<>>, before |-> lv.value]
WithStatus(value, status) == [value EXCEPT !.status = status]

\* remove_list_value(index, cx), up to the spawn
RemoveListValue ==
    /\ HasValue /\ lv.ops < Cardinality(TaskSlots)
    /\ \E s \in TaskSlots, index \in Indexes :
        /\ SlotFree(s)
        /\ lv' = [lv EXCEPT !.value = WithStatus(lv.value, "Updating"),
                            !.ops = @ + 1,
                            !.tasks[s] = Spawned("remove", index, FALSE, FALSE, "", "", 0)]
    /\ UNCHANGED <<ConnectionVars, pf, es, sc, zs>>

\* the list after the synchronous part of push_list_value
PushedLocally(list, new_value, is_lpush) ==
    [list EXCEPT !.values = IF is_lpush THEN InsertFirst(list.values, new_value)
                            ELSE IF Len(list.values) = list.size THEN Append(list.values, new_value)
                            ELSE list.values,
                 !.size = list.size + 1]
PushedValue(value, is_lpush) ==
    IsList(value) /\ (is_lpush \/ Len(value.data.values) = value.data.size)

\* push_list_value(new_value, mode, cx), up to the spawn
PushListValue ==
    /\ HasValue /\ lv.ops < Cardinality(TaskSlots)
    /\ \E s \in TaskSlots, new_value \in Items, is_lpush \in BOOLEAN :
        /\ SlotFree(s)
        /\ lv' = [lv EXCEPT
                    !.value = IF IsList(lv.value)
                              THEN RedisValueOf(PushedLocally(lv.value.data, new_value, is_lpush), "Updating")
                              ELSE WithStatus(lv.value, "Updating"),
                    !.ops = @ + 1,
                    !.tasks[s] = Spawned("push", 0, is_lpush, PushedValue(lv.value, is_lpush),
                                         "", new_value, 0)]
    /\ UNCHANGED <<ConnectionVars, pf, es, sc, zs>>

\* update_list_value(index, original_value, "b", cx), up to the spawn, on the
\* selected value
UpdateListValueOfKey ==
    /\ HasValue /\ lv.ops < Cardinality(TaskSlots)
    /\ \E s \in TaskSlots, index \in Indexes, original_value \in Items :
        /\ SlotFree(s)
        /\ lv' = [lv EXCEPT
                    !.value = IF IsList(lv.value) /\ index <= Len(lv.value.data.values)
                              THEN RedisValueOf([lv.value.data EXCEPT !.values[index] = "b"], "Updating")
                              ELSE WithStatus(lv.value, "Updating"),
                    !.ops = @ + 1,
                    !.tasks[s] = Spawned("update", index, FALSE, FALSE, original_value, "b", 0)]
    /\ UNCHANGED <<ConnectionVars, pf, es, sc, zs>>

\* load_more_list_value(cx), up to the spawn: nothing is done without list
LoadMoreListValue ==
    /\ HasValue /\ lv.ops < Cardinality(TaskSlots)
    /\ IsList(lv.value)
    /\ \E s \in TaskSlots :
        /\ SlotFree(s)
        /\ lv' = [lv EXCEPT
                    !.value = WithStatus(lv.value, "Loading"),
                    !.ops = @ + 1,
                    !.tasks[s] = Spawned("load", 0, FALSE, FALSE, "", "", Len(lv.value.data.values))]
    /\ UNCHANGED <<ConnectionVars, pf, es, sc, zs>>

\* the commands of a task on the elements of its key: the elements after
\* them, whether the task returns Ok, and the page it returns
\* LSET key index marker, LREM key 1 marker in one MULTI
RemoveOnServer(elements, task) ==
    IF task.index <= Len(elements)
    THEN [elements |-> RemoveAt(elements, task.index), ok |-> TRUE, new_values |-> <<>>]
    ELSE [elements |-> elements, ok |-> FALSE, new_values |-> <<>>]
\* LPUSH key v or RPUSH key v
PushOnServer(elements, task) ==
    [elements |-> IF task.is_lpush THEN InsertFirst(elements, task.new_value)
                  ELSE Append(elements, task.new_value),
     ok |-> TRUE, new_values |-> <<>>]
\* LINDEX key index, the comparison, LSET key index v
UpdateOnServer(elements, task) ==
    IF task.index <= Len(elements) /\ elements[task.index] = task.original_value
    THEN [elements |-> [elements EXCEPT ![task.index] = task.new_value],
          ok |-> TRUE, new_values |-> <<>>]
    ELSE [elements |-> elements, ok |-> FALSE, new_values |-> <<>>]
\* LRANGE key start start+99
LoadOnServer(elements, task) ==
    [elements |-> elements, ok |-> TRUE,
     new_values |-> get_redis_list_value(elements, task.start, task.start + PageSize - 1)]
OnServer(elements, task) ==
    IF task.op = "remove" THEN RemoveOnServer(elements, task)
    ELSE IF task.op = "push" THEN PushOnServer(elements, task)
    ELSE IF task.op = "update" THEN UpdateOnServer(elements, task)
    ELSE LoadOnServer(elements, task)
Returned(s, done) ==
    [lv EXCEPT !.tasks[s].pc = "returned", !.tasks[s].ok = done.ok,
               !.tasks[s].new_values = done.new_values,
               !.server[lv.tasks[s].key] = done.elements]

\* the background task of slot s: get_connection fails, or its commands run
TaskFails(s) ==
    /\ lv.pc = "items" /\ lv.tasks[s].pc = "spawned"
    /\ lv' = [lv EXCEPT !.tasks[s].pc = "returned", !.tasks[s].ok = FALSE]
    /\ UNCHANGED <<ConnectionVars, pf, es, sc, zs>>
TaskRuns(s) ==
    /\ lv.pc = "items" /\ lv.tasks[s].pc = "spawned"
    /\ lv' = Returned(s, OnServer(lv.server[lv.tasks[s].key], lv.tasks[s]))
    /\ UNCHANGED <<ConnectionVars, pf, es, sc, zs>>

\* list.size -= 1 on a usize: with size 0 the build with overflow checks
\* panics and the build without them wraps
Decremented(list) == [list EXCEPT !.size = list.size - 1]

\* the callback of remove_list_value on this.value
RemoveCallback(value, task) ==
    IF value = Nothing THEN value
    ELSE IF task.ok /\ value.data.list
    THEN RedisValueOf(
            [Decremented(value.data) EXCEPT
                !.values = IF task.index <= Len(value.data.values)
                           THEN RemoveAt(value.data.values, task.index)
                           ELSE value.data.values],
            "Idle")
    ELSE WithStatus(value, "Idle")

\* the callback of push_list_value on this.value
PushCallback_AlwaysRemoves(value, task) ==
    IF value = Nothing THEN value
    ELSE IF ~task.ok /\ value.data.list
    THEN RedisValueOf(
            [Decremented(value.data) EXCEPT
                !.values = IF task.is_lpush THEN RemoveFirst(value.data.values)
                           ELSE Pop(value.data.values)],
            "Idle")
    ELSE WithStatus(value, "Idle")
PushCallback(value, task) ==
    IF value = Nothing THEN value
    ELSE IF ~task.ok /\ value.data.list
    THEN RedisValueOf(
            [Decremented(value.data) EXCEPT
                !.values = IF ~task.pushed_value THEN value.data.values
                           ELSE IF task.is_lpush THEN RemoveFirst(value.data.values)
                           ELSE Pop(value.data.values)],
            "Idle")
    ELSE WithStatus(value, "Idle")

\* the callback of update_list_value on this.value
UpdateCallback(value, task) ==
    IF value = Nothing THEN value
    ELSE IF ~task.ok /\ value.data.list /\ task.index <= Len(value.data.values)
    THEN RedisValueOf([value.data EXCEPT !.values[task.index] = task.original_value], "Idle")
    ELSE WithStatus(value, "Idle")

\* the callback of load_more_list_value on this.value
LoadMoreCallback(value, task) ==
    IF value = Nothing THEN value
    ELSE IF task.ok /\ task.new_values # <<>> /\ value.data.list
    THEN RedisValueOf([value.data EXCEPT !.values = value.data.values \o task.new_values], "Idle")
    ELSE WithStatus(value, "Idle")

CallbackOf(value, task) ==
    IF task.op = "remove" THEN RemoveCallback(value, task)
    ELSE IF task.op = "push" THEN PushCallback(value, task)
    ELSE IF task.op = "update" THEN UpdateCallback(value, task)
    ELSE LoadMoreCallback(value, task)

\* whether the callback executes list.size -= 1
Decrements(value, task) ==
    /\ IsList(value)
    /\ \/ task.op = "remove" /\ task.ok
       \/ task.op = "push" /\ ~task.ok
Underflows(value, task) == Decrements(value, task) /\ value.data.size = 0
\* list.values.remove(0) of the push callback on a vector without elements
RemovesFromEmpty(value, task) ==
    /\ IsList(value) /\ task.op = "push" /\ ~task.ok
    /\ task.pushed_value /\ task.is_lpush /\ value.data.values = <<>>

\* the value as the synchronous part of the task's operation left it
AsSpawned(task) ==
    IF task.op = "push" /\ IsList(task.before)
    THEN RedisValueOf(PushedLocally(task.before.data, task.new_value, task.is_lpush), "Updating")
    ELSE IF task.op = "update" /\ IsList(task.before) /\ task.index <= Len(task.before.data.values)
    THEN RedisValueOf([task.before.data EXCEPT !.values[task.index] = task.new_value], "Updating")
    ELSE WithStatus(task.before, IF task.op = "load" THEN "Loading" ELSE "Updating")

\* history of the last callback: its task, the key that was selected when it
\* ran, whether this.value was then as the operation had left it, and
\* whether the callback changed the list or the status
Completed(s, after, panicked) ==
    [lv EXCEPT !.value = IF panicked THEN lv.value ELSE after,
               !.tasks[s] = FreeSlot,
               !.panicked = panicked,
               !.dec = IF Decrements(lv.value, lv.tasks[s])
                       THEN [from |-> lv.value.data.size] ELSE NoDecrement,
               !.last = [op |-> lv.tasks[s].op, ok |-> lv.tasks[s].ok,
                         key |-> lv.tasks[s].key, selected |-> lv.key,
                         pushed_value |-> lv.tasks[s].pushed_value,
                         untouched |-> lv.value = AsSpawned(lv.tasks[s]),
                         changed |-> after # lv.value]]

\* handle.update(..) in spawn: the callback of the task of slot s runs on the
\* state as it is now
Callback(s) ==
    /\ lv.pc = "items" /\ ~lv.panicked /\ lv.tasks[s].pc = "returned"
    /\ lv' = Completed(s, CallbackOf(lv.value, lv.tasks[s]),
                      \/ Underflows(lv.value, lv.tasks[s]) /\ lv.overflow_checks
                      \/ RemovesFromEmpty(lv.value, lv.tasks[s]))
    /\ UNCHANGED <<ConnectionVars, pf, es, sc, zs>>

\* the selection of a key has loaded its value: this.key and this.value are
\* replaced
SelectKey ==
    /\ lv.pc = "items" /\ ~lv.panicked /\ ~lv.reselected
    /\ \E key \in ListKeys :
        lv' = [lv EXCEPT !.key = key, !.value = LoadedValue(lv.server[key]),
                         !.reselected = TRUE]
    /\ UNCHANGED <<ConnectionVars, pf, es, sc, zs>>

\* another client: RPUSH A b, once in a run and while the list has fewer
\* than MaxItems elements
OtherClientRpush ==
    /\ lv.pc = "items" /\ ~lv.panicked /\ ~lv.foreign
    /\ Len(lv.server["A"]) < MaxItems
    /\ lv' = [lv EXCEPT !.server["A"] = Append(@, "b"), !.foreign = TRUE]
    /\ UNCHANGED <<ConnectionVars, pf, es, sc, zs>>

\* the lists of the two keys on the server; key A is selected and loaded
InitItems ==
    /\ NoConnections /\ pf = IdlePure
    /\ es = NoEditSession /\ sc = NoSchema /\ zs = NoServerState
    /\ \E a \in ItemLists, b \in {<<>>, <<"b">>}, overflow_checks \in BOOLEAN :
        lv = ItemsOpen([k \in ListKeys |-> IF k = "A" THEN a ELSE b], overflow_checks)
NextItems ==
    \/ RemoveListValue
    \/ PushListValue
    \/ UpdateListValueOfKey
    \/ LoadMoreListValue
    \/ \E s \in TaskSlots : TaskFails(s)
    \/ \E s \in TaskSlots : TaskRuns(s)
    \/ \E s \in TaskSlots : Callback(s)
    \/ SelectKey
    \/ OtherClientRpush
SpecItems == InitItems /\ [][NextItems]_vars

(***************************************************************************)
(* Claims on the list operations (specification SpecItems).                *)
(***************************************************************************)
\* the step in which the callback of the task of slot s runs
CallbackStep(s) == lv.tasks[s].pc = "returned" /\ lv'.tasks[s].pc = "free"

\* C32: when the LPUSH or RPUSH of push_list_value fails and this.value is,
\* when the callback runs, as push_list_value left it, the callback runs to
\* its end and the size and the loaded values of the list are afterwards
\* what they were before push_list_value was called.
C32_PushRollsBack ==
    [][\A s \in TaskSlots :
        (/\ CallbackStep(s)
         /\ lv.tasks[s].op = "push" /\ ~lv.tasks[s].ok
         /\ lv.key = lv.tasks[s].key
         /\ lv.value = AsSpawned(lv.tasks[s]))
        => /\ ~lv'.panicked
           /\ lv'.value.data = lv.tasks[s].before.data]_vars

\* An RPUSH on a list that is loaded in part has failed: only the size was
\* incremented, and only the size was taken back.
C32_Witness ==
    /\ lv.pc = "items" /\ ~lv.panicked /\ lv.last # NoCallback
    /\ lv.last.op = "push" /\ ~lv.last.ok /\ lv.last.untouched
    /\ ~lv.last.pushed_value /\ lv.last.changed
    /\ IsList(lv.value) /\ Len(lv.value.data.values) < lv.value.data.size

\* A failed push whose element was inserted locally has been rolled back.
C32_InsertedReached ==
    /\ lv.pc = "items" /\ ~lv.panicked /\ lv.last # NoCallback
    /\ lv.last.op = "push" /\ ~lv.last.ok /\ lv.last.untouched
    /\ lv.last.pushed_value /\ lv.last.changed
    /\ IsList(lv.value) /\ Len(lv.value.data.values) = lv.value.data.size

\* C33: the callback of a list operation changes only the value of the key
\* the operation was started for: when another key is selected by the time
\* the callback runs, this.value is left as it is.
C33_CallbackOnOwnKey ==
    [][\A s \in TaskSlots :
        (CallbackStep(s) /\ lv.key # lv.tasks[s].key) => lv'.value = lv.value]_vars

\* A callback has run while another key than its own was selected, and has
\* changed the value of that key.
C33_ForeignValueChanged ==
    /\ lv.pc = "items" /\ ~lv.panicked /\ lv.last # NoCallback
    /\ lv.last.key = "A" /\ lv.last.selected = "B" /\ lv.key = "B"
    /\ lv.last.changed

\* What holds instead: such a callback leaves this.value alone when the
\* value holds no list and is idle.
C33_NoListUntouched ==
    [][\A s \in TaskSlots :
        (/\ CallbackStep(s) /\ lv.key # lv.tasks[s].key
         /\ ~IsList(lv.value) /\ lv.value.status = "Idle")
        => lv'.value = lv.value]_vars

\* C37: the size of the list never underflows: whenever a callback executes
\* size -= 1, the size is at least 1.
C37_NoUnderflow ==
    lv.pc = "items" => (lv.dec = NoDecrement \/ lv.dec.from >= 1)

\* The underflow without any selection: the view shows one element, another
\* client has pushed a second one, and two removals have succeeded.
C37_UnderflowReached ==
    /\ lv.pc = "items" /\ ~lv.reselected /\ lv.foreign
    /\ lv.dec # NoDecrement /\ lv.dec.from = 0
    /\ lv.last.op = "remove" /\ lv.last.ok

\* The two outcomes of the underflow: the panic of a build with overflow
\* checks, and usize::MAX as size in a build without them.
C37_PanicReached == lv.pc = "items" /\ lv.panicked /\ lv.dec # NoDecrement /\ lv.dec.from = 0
C37_WrappedReached ==
    /\ lv.pc = "items" /\ ~lv.panicked /\ IsList(lv.value) /\ lv.value.data.size = -1

\* What holds instead: in a run without key selection and without commands
\* of other clients the size is at least 1 at every decrement.
C37_NoUnderflowOnOneValue ==
    (lv.pc = "items" /\ ~lv.reselected /\ ~lv.foreign)
        => (lv.dec = NoDecrement \/ lv.dec.from >= 1)

(***************************************************************************)
(* ZedisServerState::update_or_insrt_server and remove_server,             *)
(* states/server.rs.  Each call clones this.servers, its task changes the  *)
(* clone and saves it, and its callback stores the clone in this.servers.  *)
(* zs.saved is the list that save_servers wrote last; zs.done is history:  *)
(* the calls whose callback has run, in the order of the callbacks.        *)
(***************************************************************************)
ServerNames == {"s1", "s2"}
ServerHosts == {"h1", "h2"}
RedisServerOf(name, host) == [name |-> name, host |-> host]
\* the calls of one run, whose tasks may be in flight together
ServerSlots == {1, 2}
\* this.servers when the run begins: never set, or one server
KnownServers == {Nothing, Some(<<>>), Some(<<RedisServerOf("s1", "h1")>>)}
\* self.servers.clone().unwrap_or_default()
unwrap_or_default(servers) == IF servers = Nothing THEN <<>> ELSE servers.some

NamedOther(servers, name) == SelectSeq(servers, LAMBDA s : s.name # name)
\* servers.retain(|s| s.name != server)
retain(servers, name) == NamedOther(servers, name)
Position(servers, name) ==
    IF \E i \in 1..Len(servers) : servers[i].name = name
    THEN CHOOSE i \in 1..Len(servers) :
            /\ servers[i].name = name
            /\ \A j \in 1..(i - 1) : servers[j].name # name
    ELSE 0
AlreadyExists == Invalid("server already exists")

\* the body of the task of update_or_insrt_server up to save_servers
Upserted(servers, server, is_new) ==
    IF Position(servers, server.name) # 0
    THEN IF is_new THEN AlreadyExists
         ELSE [ok |-> TRUE,
               servers |-> [servers EXCEPT ![Position(servers, server.name)] = server]]
    ELSE [ok |-> TRUE, servers |-> Append(servers, server)]

ServersOpen(servers) ==
    [pc |-> "servers", servers |-> servers, saved |-> unwrap_or_default(servers),
     tasks |-> [s \in ServerSlots |-> FreeSlot], overlap |-> FALSE, done |-> <<>>]
ServerSlotFree(s) ==
    /\ zs.tasks[s].pc = "free"
    /\ \A r \in ServerSlots : r < s => zs.tasks[r].pc # "free"
InFlight == \E s \in ServerSlots : zs.tasks[s].pc # "free"
Started == Len(zs.done) + Cardinality({s \in ServerSlots : zs.tasks[s].pc # "free"})

\* remove_server(server, cx), up to the spawn: the clone is filtered here
RemoveServer ==
    /\ zs.pc = "servers" /\ Started < Cardinality(ServerSlots)
    /\ \E s \in ServerSlots, name \in ServerNames :
        /\ ServerSlotFree(s)
        /\ zs' = [zs EXCEPT
                    !.overlap = @ \/ InFlight,
                    !.tasks[s] = [pc |-> "spawned", op |-> "remove", name |-> name,
                                  host |-> "", is_new |-> FALSE,
                                  servers |-> retain(unwrap_or_default(zs.servers), name),
                                  ret |-> OkUnit]]
    /\ UNCHANGED <<ConnectionVars, pf, es, lv, sc>>

\* update_or_insrt_server(server, is_new, cx), up to the spawn
UpdateOrInsertServer ==
    /\ zs.pc = "servers" /\ Started < Cardinality(ServerSlots)
    /\ \E s \in ServerSlots, name \in ServerNames, host \in ServerHosts, is_new \in BOOLEAN :
        /\ ServerSlotFree(s)
        /\ zs' = [zs EXCEPT
                    !.overlap = @ \/ InFlight,
                    !.tasks[s] = [pc |-> "spawned", op |-> "upsert", name |-> name,
                                  host |-> host, is_new |-> is_new,
                                  servers |-> unwrap_or_default(zs.servers),
                                  ret |-> OkUnit]]
    /\ UNCHANGED <<ConnectionVars, pf, es, lv, sc>>

\* what the task has made of its clone when it reaches save_servers
Prepared(task) ==
    IF task.op = "remove" THEN [ok |-> TRUE, servers |-> task.servers]
    ELSE Upserted(task.servers, RedisServerOf(task.name, task.host), task.is_new)
TaskSaved(s, prepared, saved) ==
    IF ~prepared.ok
    THEN [zs EXCEPT !.tasks[s].pc = "returned", !.tasks[s].ret = prepared]
    ELSE IF ~saved
    THEN [zs EXCEPT !.tasks[s].pc = "returned", !.tasks[s].ret = Invalid("save_servers")]
    ELSE [zs EXCEPT !.tasks[s].pc = "returned", !.tasks[s].ret = OkUnit,
                    !.tasks[s].servers = prepared.servers,
                    !.saved = prepared.servers]

\* the task of slot s: the clone is changed and save_servers writes it, or
\* fails
ServerTaskRuns(s) ==
    /\ zs.pc = "servers" /\ zs.tasks[s].pc = "spawned"
    /\ \E saved \in BOOLEAN : zs' = TaskSaved(s, Prepared(zs.tasks[s]), saved)
    /\ UNCHANGED <<ConnectionVars, pf, es, lv, sc>>

\* the callback of both operations: this.servers = Some(servers) on Ok
ServersCallback(servers, task) ==
    IF task.ret.ok THEN Some(task.servers) ELSE servers

ServerCallback(s) ==
    /\ zs.pc = "servers" /\ zs.tasks[s].pc = "returned"
    /\ zs' = [zs EXCEPT !.servers = ServersCallback(zs.servers, zs.tasks[s]),
                        !.tasks[s] = FreeSlot,
                        !.done = Append(@, [op |-> zs.tasks[s].op, name |-> zs.tasks[s].name,
                                            host |-> zs.tasks[s].host, ok |-> zs.tasks[s].ret.ok])]
    /\ UNCHANGED <<ConnectionVars, pf, es, lv, sc>>

InitServers ==
    /\ NoConnections /\ pf = IdlePure
    /\ es = NoEditSession /\ lv = NoListView /\ sc = NoSchema
    /\ \E servers \in KnownServers : zs = ServersOpen(servers)
NextServers ==
    \/ RemoveServer
    \/ UpdateOrInsertServer
    \/ \E s \in ServerSlots : ServerTaskRuns(s)
    \/ \E s \in ServerSlots : ServerCallback(s)
SpecServers == InitServers /\ [][NextServers]_vars

(***************************************************************************)
(* Claims on the server list (specification SpecServers).                  *)
(***************************************************************************)
\* the effect of a completed call on a list of servers
EffectIn(call, servers) ==
    IF call.op = "remove" THEN Position(servers, call.name) = 0
    ELSE /\ Position(servers, call.name) # 0
         /\ servers[Position(servers, call.name)].host = call.host
BothDone ==
    /\ zs.pc = "servers" /\ ~InFlight /\ Len(zs.done) = 2
    /\ zs.done[1].ok /\ zs.done[2].ok
    /\ zs.done[1].name # zs.done[2].name

\* C34: two operations on the server list for different names, the second
\* started before the first completed, both successful: the list in memory
\* and the saved list hold the effect of both.
C34_NoLostUpdate ==
    (BothDone /\ zs.overlap) =>
        \A i \in 1..2 :
            /\ EffectIn(zs.done[i], unwrap_or_default(zs.servers))
            /\ EffectIn(zs.done[i], zs.saved)

\* The lost update: s1 and s2 were both inserted with success, and neither
\* the list in memory nor the saved list holds s1.
C34_InsertLost ==
    /\ BothDone /\ zs.overlap
    /\ zs.done[1].op = "upsert" /\ zs.done[2].op = "upsert"
    /\ Position(unwrap_or_default(zs.servers), zs.done[1].name) = 0
    /\ Position(zs.saved, zs.done[1].name) = 0

\* What holds instead: when the second operation is started after the
\* callback of the first, both lists hold the effect of both.
C34_OneAfterTheOther ==
    (BothDone /\ ~zs.overlap) =>
        \A i \in 1..2 :
            /\ EffectIn(zs.done[i], unwrap_or_default(zs.servers))
            /\ EffectIn(zs.done[i], zs.saved)

C34_SequentialReached ==
    /\ BothDone /\ ~zs.overlap
    /\ zs.done[1].op = "upsert" /\ zs.done[2].op = "remove"
    /\ Len(unwrap_or_default(zs.servers)) = 1

(***************************************************************************)
(* ZedisServerState::select, states/server.rs: the synchronous part, the   *)
(* SelectServer task (get_client, dbsize, ping) and its callback.  A task  *)
(* answers with the dbsize of the server it was started for, so that the   *)
(* state shows whose result it holds.  zs.applied is history: for every    *)
(* result that a callback stored, the server of the task and the server    *)
(* that was selected then; zs.scans: the servers scan_keys was called for. *)
(***************************************************************************)
\* select calls in one run
MaxSelectCalls == 3
SelectSlots == 1..MaxSelectCalls
\* the server names that are selected; the empty name selects no server
SelectNames == {"", "A", "B"}
QueryModes == {"All", "Other"}
DbsizeOf(server) == IF server = "A" THEN 1 ELSE 2

\* ZedisServerState::new()
NewServerState ==
    [pc |-> "select", server |-> "", query_mode |-> "All", server_status |-> "Idle",
     dbsize |-> Nothing, scaning |-> FALSE, key |-> Nothing,
     tasks |-> [s \in SelectSlots |-> FreeSlot], calls |-> 0,
     applied |-> {}, scans |-> {}]

\* reset(): server_status is not among the fields it sets
reset(self) ==
    [self EXCEPT !.server = "", !.dbsize = Nothing, !.key = Nothing, !.scaning = FALSE]
is_busy(self) == self.server_status # "Idle"

SelectSlotFree(s) ==
    /\ zs.tasks[s].pc = "free"
    /\ \A r \in SelectSlots : r < s => zs.tasks[r].pc # "free"

\* select(server, mode, cx) up to the spawn
Selected(self, server, mode, s) ==
    IF self.server = server THEN self
    ELSE IF server = ""
    THEN [reset(self) EXCEPT !.server = server, !.query_mode = mode]
    ELSE [reset(self) EXCEPT !.server = server, !.query_mode = mode,
                             !.server_status = "Loading", !.scaning = TRUE,
                             !.tasks[s] = [pc |-> "spawned", server |-> server,
                                           ret |-> OkUnit]]
SelectServer ==
    /\ zs.pc = "select" /\ zs.calls < MaxSelectCalls
    /\ \E s \in SelectSlots, server \in SelectNames, mode \in QueryModes :
        /\ SelectSlotFree(s)
        /\ zs' = [Selected(zs, server, mode, s) EXCEPT !.calls = zs.calls + 1]
    /\ UNCHANGED <<ConnectionVars, pf, es, lv, sc>>

\* the task of slot s: get_client, dbsize and ping succeed, or one fails
SelectTaskRuns(s) ==
    /\ zs.pc = "select" /\ zs.tasks[s].pc = "spawned"
    /\ \E ok \in BOOLEAN :
        zs' = [zs EXCEPT !.tasks[s].pc = "returned",
                         !.tasks[s].ret = IF ok THEN [ok |-> TRUE, dbsize |-> DbsizeOf(zs.tasks[s].server)]
                                          ELSE Invalid("connection")]
    /\ UNCHANGED <<ConnectionVars, pf, es, lv, sc>>

\* the callback of the SelectServer task on the state
SelectCallback_Unguarded(self, task) ==
    [self EXCEPT !.dbsize = IF task.ret.ok THEN Some(task.ret.dbsize) ELSE self.dbsize,
                 !.server_status = "Idle",
                 !.scaning = IF self.query_mode = "All" THEN self.scaning ELSE FALSE,
                 !.scans = IF self.query_mode = "All" THEN self.scans \cup {self.server}
                           ELSE self.scans,
                 !.applied = IF task.ret.ok
                             THEN self.applied \cup {<<task.server, self.server>>}
                             ELSE self.applied]
SelectCallback(self, task) ==
    IF self.server # task.server THEN self
    ELSE [self EXCEPT
            !.dbsize = IF task.ret.ok THEN Some(task.ret.dbsize) ELSE self.dbsize,
            !.server_status = "Idle",
            !.scaning = IF self.query_mode = "All" THEN self.scaning ELSE FALSE,
            !.scans = IF self.query_mode = "All" THEN self.scans \cup {self.server}
                      ELSE self.scans,
            !.applied = IF task.ret.ok
                        THEN self.applied \cup {<<task.server, self.server>>}
                        ELSE self.applied]

SelectServerCallback(s) ==
    /\ zs.pc = "select" /\ zs.tasks[s].pc = "returned"
    /\ zs' = [SelectCallback(zs, zs.tasks[s]) EXCEPT !.tasks[s] = FreeSlot]
    /\ UNCHANGED <<ConnectionVars, pf, es, lv, sc>>

InitSelect ==
    /\ NoConnections /\ pf = IdlePure
    /\ es = NoEditSession /\ lv = NoListView /\ sc = NoSchema
    /\ zs = NewServerState
NextSelect ==
    \/ SelectServer
    \/ \E s \in SelectSlots : SelectTaskRuns(s)
    \/ \E s \in SelectSlots : SelectServerCallback(s)
SpecSelect == InitSelect /\ [][NextSelect]_vars

(***************************************************************************)
(* Claims on select (specification SpecSelect).                            *)
(***************************************************************************)
AllTasksDone == zs.pc = "select" /\ \A s \in SelectSlots : zs.tasks[s].pc = "free"

\* C35: after any select calls, once every task has completed the state is
\* not busy; and a result of a task started for a server is stored only
\* while that server is the selected one.
C35_IdleWhenDone ==
    /\ AllTasksDone => ~is_busy(zs)
    /\ zs.pc = "select" => \A pair \in zs.applied : pair[1] = pair[2]

\* A server was selected, then the empty name while the task was in flight:
\* every task has completed and the state is busy for good.
C35_StuckLoading ==
    /\ AllTasksDone /\ zs.calls = 2 /\ zs.server = ""
    /\ is_busy(zs) /\ zs.dbsize = Nothing

\* What holds instead: every stored result is the selected server's, and
\* once every task has completed the state is idle unless no server is
\* selected.
C35_IdleOnSelectedServer ==
    /\ (AllTasksDone /\ zs.server # "") => ~is_busy(zs)
    /\ zs.pc = "select" => \A pair \in zs.applied : pair[1] = pair[2]
    /\ zs.pc = "select" =>
            (zs.dbsize # Nothing => zs.dbsize.some = DbsizeOf(zs.server))

\* A was selected, B was selected while A's task was in flight and A's
\* result arrived last: the state holds B's result and is idle.
C35_StaleResultDropped ==
    /\ AllTasksDone /\ zs.server = "B" /\ zs.calls = 2
    /\ zs.applied = {<<"B", "B">>} /\ zs.dbsize = Some(2) /\ ~is_busy(zs)

(***************************************************************************)
(* open_edit_value_dialog, components/edit_value_dialog.rs.  The session   *)
(* is shared as Rc<Cell<EditSession>>: every handler takes it out of the   *)
(* cell, which leaves EditSession::default() there, and puts it back with  *)
(* set.  es.cell is what the cell holds between two handlers; es.attempt   *)
(* is history: the session a save attempt found, when that attempt was    *)
(* the last handler.  The compression buttons are left out: the session of *)
(* the model saves without compression.                                    *)
(***************************************************************************)
\* EditSession::default()
DefaultSession ==
    [original_bytes |-> <<>>, content |-> "Text", editor_format |-> "Text",
     editor_text |-> <<>>, working_bytes |-> <<>>, dirty |-> FALSE,
     valid |-> TRUE, error |-> NoError]
NoAttempt == [none |-> TRUE]
\* params.on_save: no handler, or a handler and what it answers
OnSaveHandlers == {"none", "accepts", "refuses"}

DialogOpened(session, on_save) ==
    [pc |-> "dialog", cell |-> session, on_save |-> on_save,
     has_error |-> FALSE, current_format |-> session.editor_format,
     attempt |-> NoAttempt, saved |-> Nothing]

\* open_edit_value_dialog(params, window, cx): no dialog when detect_and_init
\* fails
OpenDialog ==
    /\ es.pc = "none"
    /\ \E raw \in OriginalBytes, on_save \in OnSaveHandlers :
        LET init == detect_and_init(NewSession(raw)) IN
        es' = IF init.ret.ok THEN DialogOpened(init.session, on_save)
              ELSE [pc |-> "closed", saved |-> Nothing]
    /\ UNCHANGED <<ConnectionVars, pf, lv, sc, zs>>

\* the subscription to the editor: InputEvent::Change with the text typed
Changed(session) ==
    [es EXCEPT !.cell = session, !.has_error = ~session.valid, !.attempt = NoAttempt]
InputChange ==
    /\ es.pc = "dialog"
    /\ \E text \in TypedTexts : es' = Changed(set_editor_text(es.cell, text))
    /\ UNCHANGED <<ConnectionVars, pf, lv, sc, zs>>

\* the click on the button of a format that is not the current one
FormatSet(fmt, outcome) ==
    [es EXCEPT !.cell = outcome.session,
               !.has_error = ~outcome.ret.ok,
               !.current_format = IF outcome.ret.ok THEN fmt ELSE es.current_format,
               !.attempt = NoAttempt]
FormatClick ==
    /\ es.pc = "dialog"
    /\ \E fmt \in EditFormats :
        /\ fmt # es.current_format
        /\ es' = FormatSet(fmt, set_editor_format(es.cell, fmt))
    /\ UNCHANGED <<ConnectionVars, pf, lv, sc, zs>>

\* the save attempt of on_ok and of the save button on the session s taken
\* from the cell: what the cell holds afterwards, whether the dialog is
\* closed, and the bytes handed on
SaveAttempt(s, built, on_save) ==
    IF ~built.ok THEN [cell |-> s, closed |-> FALSE, saved |-> Nothing]
    ELSE IF on_save = "refuses"
    THEN [cell |-> DefaultSession, closed |-> FALSE, saved |-> Some(built.bytes)]
    ELSE [cell |-> DefaultSession, closed |-> TRUE, saved |-> Some(built.bytes)]
Attempted(s, attempt) ==
    IF attempt.closed THEN [pc |-> "closed", saved |-> attempt.saved]
    ELSE [es EXCEPT !.cell = attempt.cell, !.attempt = [session |-> s],
                    !.saved = attempt.saved]

\* on_ok: nothing is done while has_error is set
OkPressed ==
    /\ es.pc = "dialog"
    /\ es' = IF es.has_error THEN [es EXCEPT !.attempt = NoAttempt]
             ELSE Attempted(es.cell, SaveAttempt(es.cell, build_save_bytes(es.cell), es.on_save))
    /\ UNCHANGED <<ConnectionVars, pf, lv, sc, zs>>

\* the save button of the footer, disabled while has_error is set
SaveClicked ==
    /\ es.pc = "dialog" /\ ~es.has_error
    /\ es' = Attempted(es.cell, SaveAttempt(es.cell, build_save_bytes(es.cell), es.on_save))
    /\ UNCHANGED <<ConnectionVars, pf, lv, sc, zs>>

\* on_cancel and the cancel button
CancelDialog ==
    /\ es.pc = "dialog"
    /\ es' = [pc |-> "closed", saved |-> Nothing]
    /\ UNCHANGED <<ConnectionVars, pf, lv, sc, zs>>

InitDialog ==
    /\ NoConnections /\ pf = IdlePure
    /\ NoViews
NextDialog ==
    \/ OpenDialog
    \/ InputChange
    \/ FormatClick
    \/ OkPressed
    \/ SaveClicked
    \/ CancelDialog
SpecDialog == InitDialog /\ [][NextDialog]_vars

(***************************************************************************)
(* Claims on the edit-value dialog (specification SpecDialog).             *)
(***************************************************************************)
AttemptLeftOpen == es.pc = "dialog" /\ es.attempt # NoAttempt

\* C36: after a save attempt that leaves the dialog open, the cell holds the
\* session that was there before the attempt, never an empty default one.
C36_SessionKept ==
    AttemptLeftOpen => es.cell = es.attempt.session

\* The handler refused the bytes of a session whose text is not empty: the
\* dialog is open and the cell holds the default session.
C36_SessionLost ==
    /\ AttemptLeftOpen /\ es.on_save = "refuses"
    /\ es.attempt.session.editor_text # <<>>
    /\ es.cell = DefaultSession

\* What holds instead: the session is kept when build_save_bytes fails, and
\* whenever the handler is not one that refuses.
C36_KeptUnlessRefused ==
    (AttemptLeftOpen /\ es.on_save # "refuses") =>
        /\ es.cell = es.attempt.session
        /\ ~build_save_bytes(es.attempt.session).ok

\* build_save_bytes has failed on a session that is not the default one,
\* and the cell holds that session.
C36_FailedBuildKept ==
    /\ AttemptLeftOpen /\ es.on_save # "refuses"
    /\ es.cell # DefaultSession /\ es.cell = es.attempt.session

(***************************************************************************)
(* Claims on detect_server_type (specification SpecDetect).                *)
(***************************************************************************)
Detected == pf.pc = "done" /\ pf.op = "detect_server_type"
Sent(command) == \E i \in 1..Len(pf.sent) : pf.sent[i] = command
RoleAnswered == pf.input.connect.ok /\ pf.input.role.ok
SentinelRole == RoleAnswered /\ pf.input.role.role = "Sentinel"
InfoAnswered == RoleAnswered /\ ~SentinelRole /\ pf.input.info.ok
FlagIsOne ==
    InfoAnswered /\ pf.input.info.cluster_enabled \in {<<"1">>, <<"+", "1">>}

\* C18: the result is Sentinel exactly when the ROLE reply is the sentinel
\* role, and INFO is then never issued; otherwise, once INFO is answered, it
\* is Cluster exactly when cluster_enabled is 1 and Standalone in every other
\* case, a missing cluster_enabled included.
C18_Classification ==
    Detected =>
        /\ (pf.ret = OkServerType("Sentinel")) <=> SentinelRole
        /\ SentinelRole => ~Sent(CmdInfoCluster)
        /\ (pf.ret = OkServerType("Cluster")) <=> FlagIsOne
        /\ (pf.ret = OkServerType("Standalone")) <=> (InfoAnswered /\ ~FlagIsOne)

\* INFO answered without a cluster_enabled field: Standalone.
C18_Witness ==
    /\ Detected /\ InfoAnswered
    /\ pf.input.info.cluster_enabled = Missing
    /\ pf.sent = <<CmdRole, CmdInfoCluster>>
    /\ pf.ret = OkServerType("Standalone")

\* The sentinel role ends the detection after ROLE alone.
C18_SentinelReached ==
    /\ Detected /\ SentinelRole
    /\ pf.sent = <<CmdRole>>
    /\ pf.ret = OkServerType("Sentinel")

\* cluster_enabled 1: Cluster.
C18_ClusterReached == Detected /\ FlagIsOne /\ pf.ret = OkServerType("Cluster")

(***************************************************************************)
(* Claims on parse_cluster_nodes (specification SpecNodes).                *)
(***************************************************************************)
NodesParsed == pf.pc = "done" /\ pf.op = "parse_cluster_nodes"
IsShort(shape) == shape.n < 8
IsWellFormed(shape) == shape.n >= 8 /\ shape.addr \in {"plain", "bus"}
BadAddress(shape) == shape.n >= 8 /\ shape.addr = "hostname"
HasFlag(shape, word) == \E i \in 1..Len(shape.flags) : shape.flags[i] = word
\* master -> Primary, slave -> Replica, fail -> Unreachable, else Unknown
RoleByFlags(shape) ==
    IF HasFlag(shape, Word_master) THEN "Master"
    ELSE IF HasFlag(shape, Word_slave) THEN "Slave"
    ELSE IF HasFlag(shape, Word_fail) THEN "Fail"
    ELSE "Unknown"
NodeByShape(shape) ==
    [ip |-> IF shape.addr = "bus" THEN <<"g">> ELSE <<"h">>,
     port |-> IF shape.addr = "bus" THEN 80 ELSE 8,
     role |-> RoleByFlags(shape)]
WellFormedNodes ==
    LET kept == SelectSeq(pf.shape, IsWellFormed)
    IN [i \in 1..Len(kept) |-> NodeByShape(kept[i])]

\* C15: a reply of N well-formed records and M records of fewer than 8
\* fields, in any order, gives exactly the N nodes of the well-formed
\* records, in the order of the reply.
C15_SkipShortRecords ==
    (NodesParsed /\ \A i \in 1..Len(pf.shape) :
                        IsShort(pf.shape[i]) \/ IsWellFormed(pf.shape[i])) =>
        pf.ret = OkNodes(WellFormedNodes)

\* A short record between two well-formed ones: two nodes.
C15_Witness ==
    /\ NodesParsed /\ pf.ret.ok
    /\ Len(pf.shape) >= 2
    /\ IsWellFormed(pf.shape[1]) /\ IsShort(pf.shape[2]) /\ pf.shape[2].n > 0
    /\ Len(pf.ret.nodes) = Len(pf.shape) - 1

\* C16: a record of 8 fields or more whose address cannot be parsed is
\* skipped: the result is Ok with the nodes of the well-formed records.
C16_SkipBadAddress ==
    (NodesParsed /\ \E i \in 1..Len(pf.shape) : BadAddress(pf.shape[i])) =>
        pf.ret = OkNodes(WellFormedNodes)

\* C17: the role of every node returned is the one its record's flags give:
\* Master if they contain master, else Slave if they contain slave, else
\* Fail if they contain fail, else Unknown.
C17_RoleByFlags ==
    (NodesParsed /\ pf.ret.ok) =>
        LET kept == SelectSeq(pf.shape, IsWellFormed) IN
        /\ Len(pf.ret.nodes) = Len(kept)
        /\ \A i \in 1..Len(kept) : pf.ret.nodes[i].role = RoleByFlags(kept[i])

\* A record flagged fail and master is a Master.
C17_Witness ==
    /\ NodesParsed /\ pf.ret.ok /\ Len(pf.shape) = 1
    /\ HasFlag(pf.shape[1], Word_fail) /\ HasFlag(pf.shape[1], Word_master)
    /\ pf.shape[1].flags[1] = Word_fail
    /\ pf.ret.nodes = <<[ip |-> <<"h">>, port |-> 8, role |-> "Master"]>>

\* A record flagged only fail? (possible failure) is Unknown.
C17_UnknownReached ==
    /\ NodesParsed /\ pf.ret.ok /\ Len(pf.shape) = 1
    /\ pf.shape[1].flags = <<Word_pfail>>
    /\ pf.ret.nodes[1].role = "Unknown"

(***************************************************************************)
(* Claims on parse_address (specification SpecAddr).                       *)
(***************************************************************************)
AddressParsed == pf.pc = "done" /\ pf.op = "parse_address"
HasAt(str) == \E i \in 1..Len(str) : str[i] = "@"
FirstAt(str) == CHOOSE i \in 1..Len(str) : str[i] = "@" /\ \A j \in 1..(i - 1) : str[j] # "@"
\* the part before the optional '@' and the '@' segment
BeforeAt(str) == IF HasAt(str) THEN SubSeq(str, 1, FirstAt(str) - 1) ELSE str
AfterAt(str) == SubSeq(str, FirstAt(str) + 1, Len(str))
HasColon(str) == \E i \in 1..Len(str) : str[i] = ":"
FirstColon(str) == CHOOSE i \in 1..Len(str) : str[i] = ":" /\ \A j \in 1..(i - 1) : str[j] # ":"
HostSegment(str) == SubSeq(BeforeAt(str), 1, FirstColon(BeforeAt(str)) - 1)
PortSegment(str) == SubSeq(BeforeAt(str), FirstColon(BeforeAt(str)) + 1, Len(BeforeAt(str)))

Unsigned(str) == IF str # <<>> /\ str[1] = "+" THEN Tail(str) ELSE str
\* an integer numeral: decimal digits, one at least, after an optional '+'
ValidInteger(str) ==
    /\ Unsigned(str) # <<>>
    /\ \A i \in 1..Len(Unsigned(str)) : Unsigned(str)[i] \in {Digits[d] : d \in DOMAIN Digits}
RECURSIVE NoLeadingZeros(_)
NoLeadingZeros(digits) ==
    IF Len(digits) > 1 /\ digits[1] = "0" THEN NoLeadingZeros(Tail(digits)) ELSE digits
RECURSIVE NumeralValue(_)
NumeralValue(digits) ==
    IF digits = <<>> THEN 0
    ELSE 10 * NumeralValue(SubSeq(digits, 1, Len(digits) - 1))
         + ((CHOOSE d \in DOMAIN Digits : Digits[d] = digits[Len(digits)]) - 1)
\* an integer numeral of a value in 0..65535
ValidU16(str) ==
    /\ ValidInteger(str)
    /\ Len(NoLeadingZeros(Unsigned(str))) <= 5
    /\ NumeralValue(NoLeadingZeros(Unsigned(str))) <= 65535
U16Value(str) == NumeralValue(NoLeadingZeros(Unsigned(str)))
\* the decimal numeral as Display writes it: no sign, no leading zero
Canonical(str) == ValidInteger(str) /\ str = NoLeadingZeros(Unsigned(str))

\* C19 as stated: parse_address fails exactly when the part before the
\* optional '@' has no ':', or the port segment is not a valid 16-bit
\* unsigned integer, or an '@' segment is present and is not a valid integer.
C19_FailsExactlyWhen ==
    AddressParsed =>
        (~pf.ret.ok <=>
            \/ ~HasColon(BeforeAt(pf.input))
            \/ ~ValidU16(PortSegment(pf.input))
            \/ HasAt(pf.input) /\ ~ValidInteger(AfterAt(pf.input)))

\* C19 (amended): parse_address fails exactly when the part before the
\* optional '@' has no ':', or the port segment is not a valid 16-bit
\* unsigned integer, or an '@' segment is present and is not a valid 16-bit
\* unsigned integer; in every other case it returns the host, the port and
\* the optional extra port.
C19_FailsExactlyWhenU16 ==
    AddressParsed =>
        /\ ~pf.ret.ok <=>
              \/ ~HasColon(BeforeAt(pf.input))
              \/ ~ValidU16(PortSegment(pf.input))
              \/ HasAt(pf.input) /\ ~ValidU16(AfterAt(pf.input))
        /\ pf.ret.ok =>
              /\ pf.ret.ip = HostSegment(pf.input)
              /\ pf.ret.port = U16Value(PortSegment(pf.input))
              /\ pf.ret.cport = IF HasAt(pf.input) THEN U16Value(AfterAt(pf.input))
                                 ELSE NoPort

\* An address with an extra port of five digits was parsed.
C19_Witness ==
    /\ AddressParsed /\ pf.ret.ok
    /\ pf.ret.ip # <<>>
    /\ pf.ret.cport = 65535

\* An extra port that is an integer beyond 16 bits was refused.
C19_WideBusPortRefused ==
    /\ AddressParsed /\ ~pf.ret.ok
    /\ HasColon(BeforeAt(pf.input)) /\ ValidU16(PortSegment(pf.input))
    /\ HasAt(pf.input) /\ ValidInteger(AfterAt(pf.input))

\* C20 as stated: every accepted string of the form host:port is given back
\* by formatting the parsed host and port as host:port, and every string
\* with no parseable port fails.
C20_RoundTrip ==
    AddressParsed =>
        /\ (pf.ret.ok /\ ~HasAt(pf.input)) =>
               FormatAddress(pf.ret.ip, pf.ret.port) = pf.input
        /\ (~HasColon(BeforeAt(pf.input)) \/ ~ValidU16(PortSegment(pf.input))) =>
               ~pf.ret.ok

\* C20 (amended): every accepted string of the form host:port whose port is
\* written as the plain decimal numeral of its value (no '+', no leading
\* zero) is given back by formatting the parsed host and port as host:port;
\* for the other accepted strings the formatting gives the host and the
\* plain numeral of the port; every string with no parseable port fails.
C20_RoundTripCanonical ==
    AddressParsed =>
        /\ (pf.ret.ok /\ ~HasAt(pf.input)) =>
               /\ Canonical(PortSegment(pf.input)) =>
                      FormatAddress(pf.ret.ip, pf.ret.port) = pf.input
               /\ FormatAddress(pf.ret.ip, pf.ret.port) =
                      HostSegment(pf.input) \o <<":">>
                          \o NoLeadingZeros(Unsigned(PortSegment(pf.input)))
        /\ (~HasColon(BeforeAt(pf.input)) \/ ~ValidU16(PortSegment(pf.input))) =>
               ~pf.ret.ok

\* host:65535 was parsed and formats back to itself.
C20_Witness ==
    /\ AddressParsed /\ pf.ret.ok /\ ~HasAt(pf.input)
    /\ pf.ret.ip # <<>> /\ pf.ret.port = 65535
    /\ FormatAddress(pf.ret.ip, pf.ret.port) = pf.input

(***************************************************************************)
(* Claims on the client cache (specification SpecCache).                   *)
(***************************************************************************)
GetDone(t) == gc[t].pc = "done"
Discovered(t) == GetDone(t) /\ gc[t].ret.ok /\ ~gc[t].hit

\* C10 as stated: for a server name, discovery completes successfully in at
\* most one get_client call, and a client that a call found cached is the
\* client that stays cached (same node list).
C10_DiscoveryAtMostOnce ==
    \A t, u \in Tasks :
        /\ (Discovered(t) /\ Discovered(u) /\ gc[t].name = gc[u].name) => t = u
        /\ (GetDone(t) /\ gc[t].hit) =>
               clients[gc[t].name].nodes = gc[t].ret.client.nodes

\* C10 (amended): a get_client(name) that starts once a get_client(name) has
\* succeeded returns the client cached at that moment and does no discovery
\* I/O; only a call that started while nothing was cached for the name runs
\* discovery, and the cached client is always one that such a call built.
C10_CachedAfterSuccess ==
    /\ \A t \in Tasks : gc[t].pc # "idle" =>
        /\ gc[t].hit <=> gc[t].entry # NoClient
        /\ gc[t].hit => /\ GetDone(t)
                        /\ gc[t].ret = OkClient(gc[t].entry)
                        /\ gc[t].io = 0
        /\ Discovered(t) => gc[t].io >= 1
    /\ \A name \in Names : clients[name] # NoClient =>
           \E t \in Tasks : Discovered(t) /\ gc[t].name = name

\* A call found cached the cluster client that another call had discovered.
C10_Witness ==
    \E t, u \in Tasks :
        /\ t # u
        /\ gc[t].name = gc[u].name
        /\ Discovered(t) /\ gc[t].ret.client.kind = "Cluster"
        /\ GetDone(u) /\ gc[u].hit /\ gc[u].ret = gc[t].ret

\* C13: get_client returns a client or an error whatever the replies of the
\* server are, and never aborts: an empty node list (no sentinel record
\* left, no cluster record) gives an error, not an out-of-bounds access.
C13_NeverAborts ==
    \A t \in Tasks : GetDone(t) => gc[t].ret # Panic

ConfigOfCall(t) == get_config(gc[t].name)
SentinelDone(t) ==
    GetDone(t) /\ gc[t].server_type = "Sentinel" /\ gc[t].enumerated
\* the group names of the records that pass the master_name filter
NamesLeft(t) ==
    {gc[t].reply[i].name : i \in {j \in 1..Len(gc[t].reply) :
        \/ ConfigOfCall(t).master_name = NoMasterName
        \/ gc[t].reply[j].name = ConfigOfCall(t).master_name}}

\* C14: sentinel discovery is an error whenever the records left by the
\* master_name filter carry more than one name; when it succeeds the nodes
\* are those of the records left, all of one name, the configured one if
\* a master_name is configured.
C14_OneMasterGroup ==
    \A t \in Tasks : SentinelDone(t) =>
        /\ Cardinality(NamesLeft(t)) > 1 <=> gc[t].ret = MultipleMasters
        /\ Cardinality(NamesLeft(t)) <= 1 =>
            /\ {gc[t].nodes[i].master_name : i \in 1..Len(gc[t].nodes)} = NamesLeft(t)
            /\ ConfigOfCall(t).master_name # NoMasterName =>
                   NamesLeft(t) \subseteq {ConfigOfCall(t).master_name}
            /\ gc[t].ret.ok => gc[t].ret.client.nodes = gc[t].nodes

\* The reply named two groups and the configured one was kept: a client of
\* that group's node.
C14_Witness ==
    \E t \in Tasks :
        /\ SentinelDone(t) /\ gc[t].ret.ok
        /\ ConfigOfCall(t).master_name = "m2"
        /\ Cardinality({gc[t].reply[i].name : i \in 1..Len(gc[t].reply)}) = 2
        /\ Len(gc[t].nodes) = 1

\* The reply named two groups and no master_name is configured: the error.
C14_AmbiguousReached ==
    \E t \in Tasks :
        /\ SentinelDone(t) /\ gc[t].ret = MultipleMasters
        /\ ConfigOfCall(t).master_name = NoMasterName

Probed(t) == gc[t].probes >= 1
AuthenticationError(o) == ~o.ok /\ is_auth_error(o)

\* C11 as stated: the type probe is retried exactly when the first probe
\* failed with an authentication error and the config has no password.
C11_RetryIffNoPassword ==
    \A t \in Tasks : Probed(t) =>
        (gc[t].cleared <=>
            (AuthenticationError(gc[t].first) /\ ~ConfigOfCall(t).password))

\* C11 (amended): the type probe is retried, once and with the password
\* cleared, exactly when the first probe failed with an error whose text
\* contains AuthenticationFailed and the config has a password; any other
\* failure of the first probe, and any failure with no password configured,
\* is returned without a retry.
C11_RetryIffPasswordRejected ==
    \A t \in Tasks : Probed(t) =>
        /\ gc[t].cleared <=>
              /\ ~gc[t].first.ok
              /\ gc[t].first.msg = "AuthenticationFailed"
              /\ ConfigOfCall(t).password
        /\ gc[t].probes <= 2
        /\ gc[t].probes = 2 => gc[t].cleared
        /\ (gc[t].cleared /\ gc[t].pc # "detect") => gc[t].probes = 2
        /\ (~gc[t].first.ok /\ ~gc[t].cleared) =>
              /\ gc[t].pc = "done"
              /\ gc[t].ret = gc[t].first
              /\ gc[t].probes = 1

\* A call whose first probe was rejected for its password has probed again
\* without it and got a client.
C11_Witness ==
    \E t \in Tasks :
        /\ Probed(t) /\ ConfigOfCall(t).password
        /\ ~gc[t].first.ok /\ gc[t].first.msg = "AuthenticationFailed"
        /\ gc[t].cleared /\ gc[t].probes = 2
        /\ Discovered(t)

\* A call of a server without password returned the authentication error of
\* its only probe.
C11_NoRetryReached ==
    \E t \in Tasks :
        /\ ~ConfigOfCall(t).password
        /\ GetDone(t) /\ gc[t].probes = 1
        /\ gc[t].ret = Err("AuthenticationFailed", 0)

(***************************************************************************)
(* A caller that opens a connection with the credential fallback and then  *)
(* asks for the client of a server: the operations of the core one after   *)
(* the other in one task.                                                  *)
(***************************************************************************)
CoreGetClient(t) ==
    /\ au[t].pc = "done"
    /\ GetClient(t)

\* The server accepts no credential, or only clients without password, or
\* only the first password; an earlier call may have pooled a session
\* without password for database 0.
InitCore ==
    /\ srvAccepts \in {{}, {NoPassword}, {1}}
    /\ \E prior \in {p \in BOOLEAN : p => NoPassword \in srvAccepts} :
        /\ pool = [k \in Keys |-> IF prior /\ k = KeyOf(NoPassword, 0)
                                   THEN 1 ELSE NoSession]
        /\ lastInsert = pool
        /\ sessPinged = IF prior THEN {1} ELSE {}
        /\ nextSid = IF prior THEN 1 ELSE 0
    /\ sessCfg = [s \in Sessions |-> 0]
    /\ sessDb = [s \in Sessions |-> 0]
    /\ tk = [t \in Procs |-> IdleFrame]
    /\ au = [t \in Tasks |-> IdleAuth]
    /\ sg = IdleCall
    /\ nd = [i \in Nodes |-> IdleNode]
    /\ clients = [name \in Names |-> NoClient]
    /\ gc = [t \in Tasks |-> IdleGet]
    /\ pf = IdlePure
    /\ NoViews

NextCore ==
    \/ NextAuth
    \/ \E t \in AuthTasks : CoreGetClient(t)
    \/ \E t \in AuthTasks : DetectReply(t)
    \/ \E t \in AuthTasks : EnumerateReply(t)

SpecCore == InitCore /\ [][NextCore]_vars

\* C12: every operation stops after a bounded number of attempts: the
\* fallback calls open_single_connection at most 1 + len(presets) times,
\* get_redis_nodes runs the type probe at most twice, a call of
\* open_single_connection tries to establish at most one new session, and
\* the sessions opened never outnumber the calls.
C12_BoundedAttempts ==
    \A t \in AuthTasks :
        /\ Len(au[t].attempts) <= 1 + Len(au[t].presets)
        /\ Len(au[t].results) <= Len(au[t].attempts)
        /\ gc[t].probes <= 2
        /\ tk[t].tried <= 1
        /\ tk[t].opened <= tk[t].tried
        /\ nextSid <= 1 + Len(au[t].attempts)

\* The fallback has gone through the first attempt and every preset (two at least),
\* the last call opened one session, and discovery has probed twice.
C12_Witness ==
    \E t \in AuthTasks :
        /\ au[t].pc = "done"
        /\ Len(au[t].presets) >= 2
        /\ Len(au[t].attempts) = 1 + Len(au[t].presets)
        /\ tk[t].tried = 1 /\ tk[t].opened = 1
        /\ GetDone(t) /\ gc[t].probes = 2

(***************************************************************************)
(* Claims on the scatter-gather calls (specification SpecScatter).        *)
(***************************************************************************)
SgDone(op) == sg.pc = "done" /\ sg.op = op
MasterNodes == 1..sg.n
NodeValues == [i \in 1..sg.n |-> nd[i].val]

RECURSIVE CountOf(_, _)
CountOf(k, keys) ==
    IF keys = <<>> THEN 0
    ELSE (IF keys[1] = k THEN 1 ELSE 0) + CountOf(k, Tail(keys))

RECURSIVE CountInNodes(_, _)
CountInNodes(k, n) ==
    IF n = 0 THEN 0 ELSE CountOf(k, nd[n].val.keys) + CountInNodes(k, n - 1)

IsSorted(keys) == \A i \in 1..(Len(keys) - 1) : LexLeq(keys[i], keys[i + 1])

\* C6: dbsize returns Ok(total) only when DBSIZE succeeded on every primary
\* node, and total is then the sum of the per-node counts; when the
\* connection or the command fails on a node the result is that node's
\* error, never a sum over the other nodes.
C6_DbsizeAllOrError ==
    SgDone("dbsize") =>
        /\ sg.ret.ok <=> (\A i \in MasterNodes : nd[i].pc = "ok")
        /\ sg.ret.ok => sg.ret = OkTotal(Sum(NodeValues))
        /\ \A i \in MasterNodes : nd[i].pc = "err" => sg.ret = nd[i].err

\* One node answered a positive count, another failed: the call is an error.
C6_Witness ==
    /\ SgDone("dbsize")
    /\ \E i, j \in MasterNodes :
        /\ nd[i].pc = "ok" /\ nd[i].val > 0
        /\ nd[j].pc = "err"
    /\ ~sg.ret.ok

\* Every node answered and the total counts more than one node's keys.
C6_SumReached ==
    /\ SgDone("dbsize") /\ sg.ret.ok /\ sg.n >= 2
    /\ \A i \in MasterNodes : sg.ret.total > nd[i].val

\* C7: a scan that returns (cursors, keys) gives one cursor per primary node,
\* cursors[i] being the cursor node i replied, and keys is the concatenation
\* of the per-node batches in ascending lexicographic order: every key has
\* as many occurrences as in the batches together, none dropped or added.
C7_ScanMerge ==
    (SgDone("scan") /\ sg.ret.ok) =>
        /\ \A i \in MasterNodes : nd[i].pc = "ok"
        /\ Len(sg.ret.cursors) = sg.n
        /\ \A i \in MasterNodes : sg.ret.cursors[i] = nd[i].val.cursor
        /\ IsSorted(sg.ret.keys)
        /\ \A k \in KeyNames : CountOf(k, sg.ret.keys) = CountInNodes(k, sg.n)
        /\ \A i \in 1..Len(sg.ret.keys) : sg.ret.keys[i] \in KeyNames

\* Two nodes replied the same key, the batches together were not in order,
\* and the cursors differ.
C7_Witness ==
    /\ SgDone("scan") /\ sg.ret.ok
    /\ \E i, j \in MasterNodes :
        /\ i < j
        /\ \E k \in KeyNames : CountOf(k, nd[i].val.keys) > 0 /\ CountOf(k, nd[j].val.keys) > 0
        /\ nd[i].val.cursor # nd[j].val.cursor
    /\ ~IsSorted(ExtendAll(NodeValues))

\* C21: whatever the order in which the per-node tasks complete, a call
\* returns Ok only when every node has given its value, value i being the
\* value of node i; a call that failed on a node gives the caller that error
\* and no value of any node.
C21_JoinAllInNodeOrder ==
    (sg.pc = "done" /\ sg.cmds # <<>>) =>
        IF \E i \in MasterNodes : nd[i].pc = "err"
        THEN /\ sg.values = <<>>
             /\ \E i \in MasterNodes : nd[i].pc = "err" /\ sg.ret = nd[i].err
        ELSE /\ \A i \in MasterNodes : nd[i].pc = "ok"
             /\ sg.n > 0 => sg.first \in MasterNodes
             /\ sg.n > 0 => nd[sg.first].pc = "ok"
             /\ Len(sg.values) = sg.n
             /\ \A i \in MasterNodes : sg.values[i] = nd[i].val
             /\ sg.ret = Gathered(sg.op, sg.values)

\* Node 2 answered before node 1, with another value: value 1 is node 1's.
C21_Witness ==
    /\ sg.pc = "done" /\ sg.n >= 2 /\ Len(sg.values) = sg.n
    /\ sg.first = 2
    /\ nd[1].val # nd[2].val
    /\ sg.values[1] = nd[1].val

\* A node failed after another had answered: no value is returned.
C21_DiscardReached ==
    /\ sg.pc = "done" /\ ~sg.ret.ok /\ sg.values = <<>>
    /\ \E i, j \in MasterNodes : nd[i].pc = "ok" /\ nd[j].pc = "err"

\* C31: in query_async_masters node i runs cmds[i] when there is such a
\* command and the first command otherwise (so a scan with fewer cursors than
\* primary nodes sends the first cursor to the remaining nodes), no task
\* exists beyond the primary nodes, and an empty command list gives the error
\* "Commands are empty" before any task opens a connection.
C31_CommandPerNode ==
    /\ \A i \in Nodes :
        nd[i].pc # "idle" =>
            /\ i <= sg.n
            /\ sg.cmds # <<>>
            /\ nd[i].cmd = IF i <= Len(sg.cmds) THEN sg.cmds[i] ELSE sg.cmds[1]
    /\ (sg.op # "none" /\ sg.cmds = <<>>) =>
            /\ sg.pc = "done"
            /\ ~sg.ret.ok
            /\ sg.ret.msg = "Commands are empty"
            /\ \A i \in Nodes : tk[i] = IdleFrame
            /\ pool = lastInsert

\* A scan with one cursor on two nodes: the second node has answered the
\* command that carries the first cursor.
C31_Witness ==
    /\ sg.op = "scan" /\ sg.n = 2 /\ Len(sg.cmds) = 1
    /\ sg.cmds[1] = CmdScan(1)
    /\ nd[2].pc = "ok" /\ nd[2].cmd = CmdScan(1)

\* Two cursors and one node: the call is over and the second cursor was
\* given to no node.
C31_SpareCommandReached ==
    /\ SgDone("scan") /\ sg.ret.ok /\ sg.n = 1 /\ Len(sg.cmds) = 2
    /\ sg.cmds[1] # sg.cmds[2]
    /\ nd[1].cmd = sg.cmds[1] /\ nd[2].pc = "idle"

\* A scan without cursors on two nodes is refused.
C31_EmptyReached ==
    /\ sg.op = "scan" /\ sg.n = 2 /\ sg.cmds = <<>> /\ sg.pc = "done"

(***************************************************************************)
(* Claims on the fallback (specification SpecAuth).                        *)
(***************************************************************************)
AuthDone(t) == au[t].pc = "done"
\* the first attempt, with the config as given, failed on authentication
FirstAuthFailed(t) ==
    /\ Len(au[t].results) >= 1
    /\ ~au[t].results[1].ok
    /\ is_auth_error(au[t].results[1])
NoneOk(rs) == \A j \in 1..Len(rs) : ~rs[j].ok

\* C3: with no password in the config and an authentication error on the
\* first attempt, attempt j+1 is made with presets[j] (list order, for every
\* j reached), an attempt is made only after all earlier ones failed, and the
\* call returns Preset(i, presets[i]) with the session of the first
\* successful attempt i (0-based), after which no further attempt is made.
C3_PresetOrder ==
    \A t \in AuthTasks :
        (au[t].cfg = NoPassword /\ FirstAuthFailed(t)) =>
            LET at == au[t].attempts  rs == au[t].results  ps == au[t].presets IN
            /\ Len(at) <= Len(ps) + 1
            /\ Len(rs) <= Len(at) /\ Len(at) <= Len(rs) + 1
            /\ \A j \in 2..Len(at) :
                  /\ at[j] = ps[j - 1]
                  /\ NoneOk(SubSeq(rs, 1, j - 1))
            /\ AuthDone(t) =>
                  /\ Len(at) = Len(rs)
                  /\ IF rs[Len(rs)].ok
                     THEN au[t].ret = OkAuth(rs[Len(rs)].conn,
                                             SourcePreset(Len(rs) - 2, ps[Len(rs) - 1]))
                     ELSE Len(at) = Len(ps) + 1 /\ ~au[t].ret.ok

\* C3 witness: presets [A, B, C] of which only B is accepted: the call
\* returned Preset(1, B) and made no attempt with C.
C3_Witness ==
    \E t \in AuthTasks :
        /\ AuthDone(t) /\ au[t].cfg = NoPassword /\ FirstAuthFailed(t)
        /\ au[t].presets = <<1, 2, 1>> /\ srvAccepts = {2}
        /\ au[t].ret.ok /\ au[t].ret.source = SourcePreset(1, 2)
        /\ au[t].attempts = <<NoPassword, 1, 2>>

\* C4: with an explicit password in the config and an authentication error
\* on the first attempt, the call returns that very error and has made no
\* attempt but the first, whatever the preset list.
C4_NoFallbackWithPassword ==
    \A t \in AuthTasks :
        (au[t].cfg # NoPassword /\ FirstAuthFailed(t)) =>
            /\ AuthDone(t)
            /\ au[t].ret = au[t].results[1]
            /\ au[t].attempts = <<au[t].cfg>>

\* C4 witness: the explicit password was rejected although the preset list
\* holds a credential the server accepts.
C4_Witness ==
    \E t \in AuthTasks :
        /\ AuthDone(t) /\ au[t].cfg # NoPassword /\ FirstAuthFailed(t)
        /\ \E j \in 1..Len(au[t].presets) : au[t].presets[j] \in srvAccepts
        /\ au[t].cfg \notin srvAccepts

\* C5: with no password in the config, an authentication error on the first
\* attempt and no successful preset attempt, the call returns the error of
\* the last preset attempted, and the generic error when the list is empty.
C5_LastErrorOrGeneric ==
    \A t \in AuthTasks :
        (/\ AuthDone(t) /\ au[t].cfg = NoPassword /\ FirstAuthFailed(t)
         /\ NoneOk(au[t].results)) =>
            LET rs == au[t].results IN
            IF au[t].presets = <<>>
            THEN au[t].ret = GenericError /\ au[t].ret # rs[1]
            ELSE /\ au[t].ret = rs[Len(rs)]
                 /\ Len(rs) = Len(au[t].presets) + 1
                 /\ au[t].ret.at = Len(au[t].presets) + 1

\* C5 witness: three presets failed, with different errors, and the error
\* returned is the third one's.
C5_Witness ==
    \E t \in AuthTasks :
        /\ AuthDone(t) /\ au[t].cfg = NoPassword /\ FirstAuthFailed(t)
        /\ Len(au[t].presets) = 3 /\ ~au[t].ret.ok
        /\ au[t].ret.at = 4
        /\ au[t].results[2].msg # au[t].results[4].msg

\* C5, the empty list: the generic error is returned.
C5_GenericReached ==
    \E t \in AuthTasks :
        /\ AuthDone(t) /\ au[t].presets = <<>> /\ au[t].ret = GenericError

\* C23: when the first attempt, with the config as given, succeeds, the
\* source reported is Config if the config has a password and None if it has
\* none; Preset(i, credential) is reported only with a session that was
\* opened with that credential.
C23_SourceOfSuccess ==
    \A t \in AuthTasks : AuthDone(t) =>
        /\ au[t].results[1].ok =>
              /\ au[t].ret.ok /\ au[t].ret.conn = au[t].results[1].conn
              /\ au[t].ret.source = SourceConfig <=> au[t].cfg # NoPassword
              /\ au[t].ret.source = SourceNone <=> au[t].cfg = NoPassword
        /\ (au[t].ret.ok /\ au[t].ret.source \notin {SourceConfig, SourceNone}) =>
              \E i \in 1..Len(au[t].presets) :
                  /\ au[t].ret.source = SourcePreset(i - 1, au[t].presets[i])
                  /\ sessCfg[au[t].ret.conn] = au[t].presets[i]
                  /\ au[t].attempts[Len(au[t].attempts)] = au[t].presets[i]

\* The first attempt succeeded without a password although the preset list
\* holds credentials: None is reported.
C23_Witness ==
    \E t \in AuthTasks :
        /\ AuthDone(t) /\ au[t].results[1].ok
        /\ au[t].cfg = NoPassword /\ au[t].presets # <<>>
        /\ au[t].ret.source = SourceNone

\* A configured password was accepted: Config is reported.
C23_ConfigReached ==
    \E t \in AuthTasks :
        /\ AuthDone(t) /\ au[t].results[1].ok /\ au[t].cfg # NoPassword
        /\ au[t].ret.source = SourceConfig

\* The second preset was accepted after the first was refused.
C23_PresetReached ==
    \E t \in AuthTasks :
        /\ AuthDone(t) /\ au[t].ret.ok /\ Len(au[t].results) = 3
        /\ au[t].ret.source = SourcePreset(1, au[t].presets[2])
        /\ sessCfg[au[t].ret.conn] = au[t].presets[2]

\* C30: when the first attempt fails with an error that is_auth_error does
\* not classify as an authentication error, the call returns that error and
\* has made no attempt but the first, with or without a password.
C30_OtherErrorAtOnce ==
    \A t \in AuthTasks :
        (/\ Len(au[t].results) >= 1
         /\ ~au[t].results[1].ok
         /\ au[t].results[1].msg \notin AuthMessages) =>
            /\ AuthDone(t)
            /\ au[t].ret = au[t].results[1]
            /\ au[t].attempts = <<au[t].cfg>>

\* No password, a preset the server accepts, and a transport error on the
\* first attempt: the error is returned.
C30_Witness ==
    \E t \in AuthTasks :
        /\ AuthDone(t) /\ au[t].cfg = NoPassword
        /\ \E j \in 1..Len(au[t].presets) : au[t].presets[j] \in srvAccepts
        /\ ~au[t].ret.ok /\ au[t].ret.msg = "IoError"
        /\ au[t].attempts = <<NoPassword>>

\* The same with a password in the config.
C30_WithPasswordReached ==
    \E t \in AuthTasks :
        /\ AuthDone(t) /\ au[t].cfg # NoPassword
        /\ ~au[t].ret.ok /\ au[t].ret.msg = "IoError"
        /\ au[t].attempts = <<au[t].cfg>>

(***************************************************************************)
(* Claims on the pool (specification SpecPool).                            *)
(***************************************************************************)
Done(t) == tk[t].pc = "done"
Reused(t) == tk[t].probed # NoSession /\ tk[t].probeOk
NewCmds(db) == IF db # 0 THEN <<"SELECT", "PING">> ELSE <<"PING">>

\* C1: a call whose cached session answered the PING probe returns that
\* session and opens no transport; a call that found no entry, or whose probe
\* failed, and that returns Ok has opened exactly one new session, has sent
\* SELECT (only when db # 0) and PING on it, has overwritten the pool entry
\* of its key with it and returns it.
C1_ReuseOrReplace ==
    \A t \in Tasks : Done(t) =>
        /\ tk[t].probed = tk[t].entry
        /\ Reused(t) =>
              /\ tk[t].ret = Ok(tk[t].probed)
              /\ tk[t].opened = 0
              /\ tk[t].cmds = <<>>
              /\ tk[t].stored = NoSession
        /\ (~Reused(t) /\ tk[t].ret.ok) =>
              /\ tk[t].opened = 1
              /\ tk[t].ret.conn # tk[t].probed
              /\ sessCfg[tk[t].ret.conn] = tk[t].cfg
              /\ sessDb[tk[t].ret.conn] = tk[t].db
              /\ tk[t].cmds = NewCmds(tk[t].db)
              /\ tk[t].stored = tk[t].ret.conn

\* C1 witness: a call found no entry for its key, opened a session, selected
\* database 1 on it and cached it; a second call on the key reused it.
C1_Witness ==
    \E t, u \in Tasks :
        /\ Done(t) /\ tk[t].probed = NoSession /\ tk[t].ret.ok /\ tk[t].db # 0
        /\ Done(u) /\ Reused(u) /\ tk[u].ret = tk[t].ret /\ tk[u].opened = 0

\* A call replaced an entry whose probe had failed (the other case of C1).
C1_ReplacedAfterFailedProbe ==
    \E t \in Tasks :
        /\ Done(t) /\ tk[t].probed # NoSession /\ ~tk[t].probeOk
        /\ tk[t].ret.ok /\ pool[KeyOfTask(t)] = tk[t].ret.conn

\* C2: a call that did not reuse the cached session returns Ok only with a
\* session on which its own SELECT (db # 0) and PING succeeded, never the
\* session whose probe failed; when a step failed it returns that step's
\* error; and every pool entry is a session whose SELECT and PING succeeded.
C2_ErrorsNotSuppressed ==
    /\ \A t \in Tasks : (Done(t) /\ ~Reused(t)) =>
          IF tk[t].ret.ok
          THEN /\ tk[t].ret.conn \in tk[t].pinged
               /\ tk[t].ret.conn # tk[t].probed
               /\ sessDb[tk[t].ret.conn] = tk[t].db
               /\ tk[t].cmds = NewCmds(tk[t].db)
          ELSE /\ tk[t].ret.msg \in AuthMessages \cup OtherMessages
               /\ tk[t].stored = NoSession
               /\ tk[t].cmds # NewCmds(tk[t].db) \/ tk[t].conn \notin tk[t].pinged
    /\ \A k \in Keys : pool[k] # NoSession =>
          /\ pool[k] \in sessPinged
          /\ sessDb[pool[k]] = k[2]
          /\ sessCfg[pool[k]] = k[1]

\* C2 witness: a probe failed, then the PING on the freshly opened session
\* failed too: the call returned an error and the stale entry stayed.
C2_Witness ==
    \E t \in Tasks :
        /\ Done(t) /\ tk[t].probed # NoSession /\ ~tk[t].probeOk
        /\ ~tk[t].ret.ok /\ tk[t].opened = 1
        /\ Len(tk[t].cmds) > 0 /\ tk[t].cmds[Len(tk[t].cmds)] = "PING"
        /\ pool[KeyOfTask(t)] = tk[t].probed

AllDone == \A t \in Tasks : Done(t)

\* C8: in every interleaving, a call that returns Ok returns a session that
\* answered a PING of that very call; and when all calls have finished, the
\* pool holds for each key the session of the latest insert on that key (no
\* entry where no insert happened), so no other session is referenced.
C8_LastInsertWins ==
    /\ \A t \in Tasks : (Done(t) /\ tk[t].ret.ok) => tk[t].ret.conn \in tk[t].pinged
    /\ AllDone => \A k \in Keys : pool[k] = lastInsert[k]

\* C8 witness: two calls on one key both opened a session (the duplicate
\* connect race) and the pool holds the one inserted last.
C8_Witness ==
    /\ AllDone
    /\ \E t, u \in Tasks :
          /\ t # u /\ KeyOfTask(t) = KeyOfTask(u)
          /\ tk[t].ret.ok /\ tk[u].ret.ok
          /\ tk[t].opened = 1 /\ tk[u].opened = 1
          /\ tk[t].probed = NoSession /\ tk[u].probed = NoSession
          /\ pool[KeyOfTask(t)] = tk[u].ret.conn

\* C9 (as claimed): no task holds a Ref into the pool map while it is
\* suspended on the PING liveness probe.
C9_NoGuardAcrossAwait ==
    \A t \in Tasks : tk[t].pc = "probe" => ~tk[t].guard

====
